---- MODULE Spec2Model ----
(***************************************************************************)
(* Model of the obsidian-local-rest-api MCP bridge (src/src/index.ts,      *)
(* lines 1-594): the start of the process, the ObsidianApiClient request   *)
(* translator and the ObsidianMcpServer list-tools / call-tool handlers.   *)
(*                                                                         *)
(* Texts (JavaScript strings) are sequences of pieces.  Every character    *)
(* the code or the platform inspects (URL delimiters, JSON punctuation,    *)
(* digits of a percent escape, white space) is a piece of its own; a       *)
(* longer piece stands for a run of letters, digits, "_" or "-" that no    *)
(* conversion looks into, or for a fixed message fragment.                 *)
(*                                                                         *)
(* JavaScript values are records [t, v]: t is the kind of the value.       *)
(***************************************************************************)
EXTENDS Integers, Sequences, FiniteSets, TLC

VARIABLES argv, env, pkg, config, client, server, proc, stdout, stderr, calls, listed

vars == <<argv, env, pkg, config, client, server, proc, stdout, stderr, calls, listed>>

\* what the process was launched with
launch == <<argv, env, pkg>>

-----------------------------------------------------------------------------
(* JavaScript values *)

Undefined == [t |-> "undefined", v |-> 0]
Null == [t |-> "null", v |-> 0]
Bool(b) == [t |-> "bool", v |-> b]
Num(n) == [t |-> "num", v |-> n]
\* a number that is not finite (Infinity, -Infinity): v is its sign
Inf(s) == [t |-> "inf", v |-> s]
Str(s) == [t |-> "str", v |-> s]
Arr(a) == [t |-> "arr", v |-> a]
\* an object: the sequence of its <<key, value>> properties in property order
Obj(ps) == [t |-> "obj", v |-> ps]

\* args?.key of the call handler: undefined when the key (or args) is absent
Arg(args, key) == IF key \in DOMAIN args THEN args[key] ELSE Undefined

\* a default parameter value applies to undefined only
Default(x, d) == IF x.t = "undefined" THEN d ELSE x

\* ToBoolean
Truthy(x) ==
  CASE x.t \in {"undefined", "null"} -> FALSE
    [] x.t = "bool" -> x.v
    [] x.t = "num" -> x.v # 0
    [] x.t = "str" -> x.v # <<>>
    [] OTHER -> TRUE

RECURSIVE JoinTexts(_, _)
JoinTexts(ts, sep) ==
  IF ts = <<>> THEN <<>>
  ELSE IF Len(ts) = 1 THEN ts[1]
  ELSE ts[1] \o sep \o JoinTexts(Tail(ts), sep)

DigitChars == <<"0", "1", "2", "3", "4", "5", "6", "7", "8", "9">>

IsDigit(c) == \E d \in 1..10 : DigitChars[d] = c

DigitValue(c) == (CHOOSE d \in 1..10 : DigitChars[d] = c) - 1

RECURSIVE DigitsOf(_)
DigitsOf(n) ==
  IF n < 10 THEN <<DigitChars[n + 1]>> ELSE Append(DigitsOf(n \div 10), DigitChars[(n % 10) + 1])

\* Number::toString of an integer
NumberToString(n) == IF n < 0 THEN <<"-">> \o DigitsOf(-n) ELSE DigitsOf(n)

\* ToString (String(x), template literals, URLSearchParams values)
RECURSIVE ToStr(_)
ToStr(x) ==
  CASE x.t = "undefined" -> <<"undefined">>
    [] x.t = "null" -> <<"null">>
    [] x.t = "bool" -> IF x.v THEN <<"true">> ELSE <<"false">>
    [] x.t = "num" -> NumberToString(x.v)
    [] x.t = "inf" -> IF x.v < 0 THEN <<"-", "Infinity">> ELSE <<"Infinity">>
    [] x.t = "str" -> x.v
    [] x.t = "arr" ->
         JoinTexts([i \in 1..Len(x.v) |->
                      IF x.v[i].t \in {"undefined", "null"} THEN <<>> ELSE ToStr(x.v[i])],
                   <<",">>)
    [] OTHER -> <<"[object Object]">>

\* the outcome of evaluating an expression: a value, or a thrown Error
\* with its message
Ok(v) == [threw |-> FALSE, val |-> v]
Throw(msg) == [threw |-> TRUE, val |-> msg]

\* x.toString(): a TypeError on undefined and null
MethodToString(x) ==
  IF x.t \in {"undefined", "null"}
  THEN Throw(<<"Cannot read properties of ">> \o ToStr(x) \o <<" (reading 'toString')">>)
  ELSE Ok(ToStr(x))

\* x.join(","): only arrays have the method
MethodJoin(x, what) ==
  CASE x.t \in {"undefined", "null"} ->
         Throw(<<"Cannot read properties of ">> \o ToStr(x) \o <<" (reading 'join')">>)
    [] x.t = "arr" -> Ok(ToStr(x))
    [] OTHER -> Throw(<<what, ".join is not a function">>)

-----------------------------------------------------------------------------
(* Percent-encoding, as the platform functions the client calls perform it *)

\* a piece standing for an unpaired UTF-16 surrogate
LoneSurrogate == "\\uD800"

\* the percent escapes of the delimiter characters of the model
PercentCodes ==
  [c \in {" ", "/", "%", "?", "#", "&", "=", "+", ",", ":", "\"", "!", "~"} |->
     CASE c = " " -> <<"%", "2", "0">>
       [] c = "/" -> <<"%", "2", "F">>
       [] c = "%" -> <<"%", "2", "5">>
       [] c = "?" -> <<"%", "3", "F">>
       [] c = "#" -> <<"%", "2", "3">>
       [] c = "&" -> <<"%", "2", "6">>
       [] c = "=" -> <<"%", "3", "D">>
       [] c = "+" -> <<"%", "2", "B">>
       [] c = "," -> <<"%", "2", "C">>
       [] c = ":" -> <<"%", "3", "A">>
       [] c = "\"" -> <<"%", "2", "2">>
       [] c = "!" -> <<"%", "2", "1">>
       [] c = "~" -> <<"%", "7", "E">>]

\* the characters encodeURIComponent leaves alone besides letters and digits
UriUnreservedMarks == {"-", "_", ".", "!", "~", "*", "'", "(", ")"}

\* the characters the application/x-www-form-urlencoded serializer leaves alone
FormUnreservedMarks == {"*", "-", ".", "_"}

RECURSIVE Flatten(_)
Flatten(ts) == IF ts = <<>> THEN <<>> ELSE ts[1] \o Flatten(Tail(ts))

EncodeUriPiece(c) ==
  IF c \in DOMAIN PercentCodes /\ c \notin UriUnreservedMarks THEN PercentCodes[c] ELSE <<c>>

\* encodeURIComponent(x): ToString, then escape; URIError on a lone surrogate
EncodeURIComponent(x) ==
  LET s == ToStr(x) IN
  IF \E i \in 1..Len(s) : s[i] = LoneSurrogate
  THEN Throw(<<"URI malformed">>)
  ELSE Ok(Flatten([i \in 1..Len(s) |-> EncodeUriPiece(s[i])]))

FormEncodePiece(c) ==
  CASE c = " " -> <<"+">>
    [] c = LoneSurrogate -> <<"%", "E", "F", "%", "B", "F", "%", "B", "D">>
    [] c \in DOMAIN PercentCodes /\ c \notin FormUnreservedMarks -> PercentCodes[c]
    [] OTHER -> <<c>>

FormEncode(s) == Flatten([i \in 1..Len(s) |-> FormEncodePiece(s[i])])

\* new URLSearchParams(...).toString(): params is a sequence of
\* <<name, value text>> in insertion order
URLSearchParamsToString(params) ==
  JoinTexts([i \in 1..Len(params) |->
               FormEncode(<<params[i][1]>>) \o <<"=">> \o FormEncode(params[i][2])],
            <<"&">>)

-----------------------------------------------------------------------------
(* What the receiving side reads from a request line *)

\* the pieces of s before the first sep (all of s if there is none)
RECURSIVE Before(_, _)
Before(s, sep) ==
  IF s = <<>> \/ s[1] = sep THEN <<>> ELSE <<s[1]>> \o Before(Tail(s), sep)

HasPiece(s, c) == \E i \in 1..Len(s) : s[i] = c

\* the pieces of s after the first sep
After(s, sep) == SubSeq(s, Len(Before(s, sep)) + 2, Len(s))

RECURSIVE Split(_, _)
Split(s, sep) ==
  IF ~HasPiece(s, sep) THEN <<s>> ELSE <<Before(s, sep)>> \o Split(After(s, sep), sep)

RECURSIVE PercentDecode(_)
PercentDecode(s) ==
  IF s = <<>> THEN <<>>
  ELSE IF s[1] = "%" /\ Len(s) >= 3
          /\ \E c \in DOMAIN PercentCodes : PercentCodes[c] = SubSeq(s, 1, 3)
       THEN <<CHOOSE c \in DOMAIN PercentCodes : PercentCodes[c] = SubSeq(s, 1, 3)>>
              \o PercentDecode(SubSeq(s, 4, Len(s)))
       ELSE <<s[1]>> \o PercentDecode(Tail(s))

PlusToSpace(s) == [i \in 1..Len(s) |-> IF s[i] = "+" THEN " " ELSE s[i]]

\* the <<name, value>> pairs a form-urlencoded query string decodes to
ParseQuery(q) ==
  IF q = <<>> THEN <<>>
  ELSE LET parts == Split(q, "&") IN
       [i \in 1..Len(parts) |->
          <<PercentDecode(PlusToSpace(Before(parts[i], "="))),
            PercentDecode(PlusToSpace(After(parts[i], "=")))>>]

\* dot-segment removal of the URL parser fetch() applies to its argument:
\* "." is dropped, ".." drops the segment before it; as the last segment
\* either leaves an empty segment
RECURSIVE RemoveDotSegments(_, _)
RemoveDotSegments(segs, out) ==
  IF segs = <<>> THEN out
  ELSE LET seg == segs[1]
           last == Len(segs) = 1
           popped == IF out = <<>> THEN <<>> ELSE SubSeq(out, 1, Len(out) - 1)
       IN  CASE seg = <<".", ".">> ->
                  RemoveDotSegments(Tail(segs), IF last THEN Append(popped, <<>>) ELSE popped)
             [] seg = <<".">> ->
                  RemoveDotSegments(Tail(segs), IF last THEN Append(out, <<>>) ELSE out)
             [] OTHER -> RemoveDotSegments(Tail(segs), Append(out, seg))

\* the request target fetch(url) puts on the wire: url is the origin piece
\* followed by "/"-separated path segments and an optional "?" query
FetchTarget(url) ==
  LET rest == Tail(url)
      rawPath == Before(rest, "?")
      segs == IF rawPath = <<>> THEN <<>> ELSE Tail(Split(rawPath, "/"))
  IN  [origin |-> url[1],
       segments |-> RemoveDotSegments(segs, <<>>),
       hasQuery |-> HasPiece(rest, "?"),
       query |-> After(rest, "?")]

-----------------------------------------------------------------------------
(* JSON.stringify *)

Spaces(n) == [i \in 1..n |-> " "]

EscapeJsonPiece(c) ==
  CASE c = "\"" -> <<"\\", "\"">>
    [] c = "\\" -> <<"\\", "\\">>
    [] c = "\n" -> <<"\\", "n">>
    [] c = LoneSurrogate -> <<"\\", "u", "d", "8", "0", "0">>
    [] OTHER -> <<c>>

QuoteJson(s) == <<"\"">> \o Flatten([i \in 1..Len(s) |-> EscapeJsonPiece(s[i])]) \o <<"\"">>

\* the properties JSON.stringify writes: those whose value is not undefined
RECURSIVE DefinedProps(_)
DefinedProps(ps) ==
  IF ps = <<>> THEN <<>>
  ELSE IF ps[1][2].t = "undefined" THEN DefinedProps(Tail(ps))
  ELSE <<ps[1]>> \o DefinedProps(Tail(ps))

\* the serialization of v at nesting level ind; gap is the number of spaces
\* per level (0: no white space at all)
RECURSIVE JsonSer(_, _, _)
JsonSer(v, gap, ind) ==
  LET open == IF gap = 0 THEN <<>> ELSE <<"\n">> \o Spaces(gap * (ind + 1))
      close == IF gap = 0 THEN <<>> ELSE <<"\n">> \o Spaces(gap * ind)
      colon == IF gap = 0 THEN <<":">> ELSE <<":", " ">>
  IN
  CASE v.t \in {"undefined", "null", "inf"} -> <<"null">>
    [] v.t = "bool" -> IF v.v THEN <<"true">> ELSE <<"false">>
    [] v.t = "num" -> NumberToString(v.v)
    [] v.t = "str" -> QuoteJson(v.v)
    [] v.t = "arr" ->
         IF v.v = <<>> THEN <<"[", "]">>
         ELSE <<"[">> \o open
              \o JoinTexts([i \in 1..Len(v.v) |-> JsonSer(v.v[i], gap, ind + 1)], <<",">> \o open)
              \o close \o <<"]">>
    [] OTHER ->
         LET ps == DefinedProps(v.v) IN
         IF ps = <<>> THEN <<"{", "}">>
         ELSE <<"{">> \o open
              \o JoinTexts([i \in 1..Len(ps) |->
                              QuoteJson(ps[i][1]) \o colon \o JsonSer(ps[i][2], gap, ind + 1)],
                           <<",">> \o open)
              \o close \o <<"}">>

\* JSON.stringify(v) and JSON.stringify(v, null, 2) of a value that is not
\* undefined
JSONStringify(v, gap) == JsonSer(v, gap, 0)

-----------------------------------------------------------------------------
(* JSON texts and JSON.parse.  A JSON number is kept as the literal        *)
(* [t |-> "lit", v |-> <<m, e>>] standing for m * 10^e (integers with an   *)
(* optional non-negative exponent are the numbers of the model); an object *)
(* is the sequence of its members as written.  The string escapes of the   *)
(* model are \", \\, \/, \n and \ud800.                                    *)

Lit(m, e) == [t |-> "lit", v |-> <<m, e>>]

ParseFail == [ok |-> FALSE, val |-> Null, rest |-> <<>>]
Parsed(v, rest) == [ok |-> TRUE, val |-> v, rest |-> rest]

IsWs(c) == c \in {" ", "\n", "\t", "\r"}

RECURSIVE SkipWs(_)
SkipWs(s) == IF s # <<>> /\ IsWs(s[1]) THEN SkipWs(Tail(s)) ELSE s

RECURSIVE ReadDigits(_, _, _)
ReadDigits(s, acc, cnt) ==
  IF s # <<>> /\ IsDigit(s[1])
  THEN ReadDigits(Tail(s), acc * 10 + DigitValue(s[1]), cnt + 1)
  ELSE [n |-> acc, cnt |-> cnt, rest |-> s]

\* m * 10^e with the trailing zeros of m moved into the exponent
RECURSIVE NormLit(_, _)
NormLit(m, e) ==
  IF m = 0 THEN Lit(0, 0)
  ELSE IF m % 10 = 0 THEN NormLit(m \div 10, e + 1)
  ELSE Lit(m, e)

ParseNumber(s) ==
  LET neg == s[1] = "-"
      s1 == IF neg THEN Tail(s) ELSE s
      int == ReadDigits(s1, 0, 0)
      hasExp == int.rest # <<>> /\ int.rest[1] \in {"e", "E"}
      s2 == IF hasExp THEN Tail(int.rest) ELSE <<>>
      s3 == IF s2 # <<>> /\ s2[1] = "+" THEN Tail(s2) ELSE s2
      ex == ReadDigits(s3, 0, 0)
      m == IF neg THEN 0 - int.n ELSE int.n
  IN  IF int.cnt = 0 \/ (int.cnt > 1 /\ s1[1] = "0") THEN ParseFail
      ELSE IF ~hasExp THEN Parsed(NormLit(m, 0), int.rest)
      ELSE IF ex.cnt = 0 THEN ParseFail
      ELSE Parsed(NormLit(m, ex.n), ex.rest)

\* the rest of a string after its opening quote
RECURSIVE ReadString(_, _)
ReadString(s, acc) ==
  IF s = <<>> \/ s[1] = "\n" THEN ParseFail
  ELSE IF s[1] = "\"" THEN Parsed(Str(acc), Tail(s))
  ELSE IF s[1] # "\\" THEN ReadString(Tail(s), Append(acc, s[1]))
  ELSE IF Len(s) < 2 THEN ParseFail
  ELSE IF s[2] \in {"\"", "\\", "/"} THEN ReadString(SubSeq(s, 3, Len(s)), Append(acc, s[2]))
  ELSE IF s[2] = "n" THEN ReadString(SubSeq(s, 3, Len(s)), Append(acc, "\n"))
  ELSE IF Len(s) >= 6 /\ SubSeq(s, 2, 6) = <<"u", "d", "8", "0", "0">>
       THEN ReadString(SubSeq(s, 7, Len(s)), Append(acc, LoneSurrogate))
  ELSE ParseFail

RECURSIVE ParseValue(_)
RECURSIVE ReadElements(_, _)
RECURSIVE ReadMembers(_, _)

\* the elements of an array after "[" or ","
ReadElements(s, acc) ==
  LET el == ParseValue(SkipWs(s))
      s1 == SkipWs(el.rest)
  IN  IF ~el.ok \/ s1 = <<>> THEN ParseFail
      ELSE IF s1[1] = "," THEN ReadElements(Tail(s1), Append(acc, el.val))
      ELSE IF s1[1] = "]" THEN Parsed(Arr(Append(acc, el.val)), Tail(s1))
      ELSE ParseFail

\* the members of an object after "{" or ","
ReadMembers(s, acc) ==
  LET s0 == SkipWs(s)
      key == IF s0 # <<>> /\ s0[1] = "\"" THEN ReadString(Tail(s0), <<>>) ELSE ParseFail
      s1 == SkipWs(key.rest)
      val == IF key.ok /\ s1 # <<>> /\ s1[1] = ":" THEN ParseValue(SkipWs(Tail(s1))) ELSE ParseFail
      s2 == SkipWs(val.rest)
      acc1 == Append(acc, <<key.val.v, val.val>>)
  IN  IF ~val.ok \/ s2 = <<>> THEN ParseFail
      ELSE IF s2[1] = "," THEN ReadMembers(Tail(s2), acc1)
      ELSE IF s2[1] = "}" THEN Parsed(Obj(acc1), Tail(s2))
      ELSE ParseFail

ParseValue(s) ==
  IF s = <<>> THEN ParseFail
  ELSE CASE s[1] = "null" -> Parsed(Null, Tail(s))
         [] s[1] = "true" -> Parsed(Bool(TRUE), Tail(s))
         [] s[1] = "false" -> Parsed(Bool(FALSE), Tail(s))
         [] s[1] = "\"" -> ReadString(Tail(s), <<>>)
         [] s[1] = "-" \/ IsDigit(s[1]) -> IF Len(s) = 1 /\ s[1] = "-" THEN ParseFail ELSE ParseNumber(s)
         [] s[1] = "[" ->
              LET s1 == SkipWs(Tail(s)) IN
              IF s1 # <<>> /\ s1[1] = "]" THEN Parsed(Arr(<<>>), Tail(s1))
              ELSE ReadElements(Tail(s), <<>>)
         [] s[1] = "{" ->
              LET s1 == SkipWs(Tail(s)) IN
              IF s1 # <<>> /\ s1[1] = "}" THEN Parsed(Obj(<<>>), Tail(s1))
              ELSE ReadMembers(Tail(s), <<>>)
         [] OTHER -> ParseFail

\* the JSON value a whole text denotes, if it is a JSON text
JsonParse(text) ==
  LET r == ParseValue(SkipWs(text)) IN
  IF r.ok /\ SkipWs(r.rest) = <<>> THEN Parsed(r.val, <<>>) ELSE ParseFail

\* the largest decimal exponent of a finite double (Number.MAX_VALUE is
\* about 1.797 * 10^308)
DoubleMaxExp10 == 308

RECURSIVE Pow10(_)
Pow10(e) == IF e = 0 THEN 1 ELSE 10 * Pow10(e - 1)

Abs(n) == IF n < 0 THEN 0 - n ELSE n

\* the Number a JSON number literal becomes: Infinity beyond the double range
LitToNumber(m, e) ==
  IF m = 0 THEN Num(0)
  ELSE IF Len(DigitsOf(Abs(m))) - 1 + e > DoubleMaxExp10 THEN Inf(IF m < 0 THEN 0 - 1 ELSE 1)
  ELSE Num(m * Pow10(e))

\* an array index key: a canonical decimal integer
IsIndexKey(k) ==
  /\ k # <<>>
  /\ \A i \in 1..Len(k) : IsDigit(k[i])
  /\ (Len(k) > 1 => k[1] # "0")

KeyNumber(k) == ReadDigits(k, 0, 0).n

\* defining property k: an existing property keeps its place and takes the
\* new value
DefineProp(ps, k, v) ==
  IF \E i \in 1..Len(ps) : ps[i][1] = k
  THEN [i \in 1..Len(ps) |-> IF ps[i][1] = k THEN <<k, v>> ELSE ps[i]]
  ELSE Append(ps, <<k, v>>)

RECURSIVE SelectProps(_, _)
SelectProps(ps, index) ==
  IF ps = <<>> THEN <<>>
  ELSE IF IsIndexKey(ps[1][1]) = index THEN <<ps[1]>> \o SelectProps(Tail(ps), index)
  ELSE SelectProps(Tail(ps), index)

RECURSIVE SortByIndex(_)
SortByIndex(ps) ==
  IF ps = <<>> THEN <<>>
  ELSE LET i == CHOOSE i \in 1..Len(ps) :
                  \A j \in 1..Len(ps) : KeyNumber(ps[i][1]) <= KeyNumber(ps[j][1])
       IN  <<ps[i]>> \o SortByIndex(SubSeq(ps, 1, i - 1) \o SubSeq(ps, i + 1, Len(ps)))

\* property order of an object: index keys ascending, then the other keys
\* in creation order
OrderProps(ps) == SortByIndex(SelectProps(ps, TRUE)) \o SelectProps(ps, FALSE)

\* the JavaScript value JSON.parse builds from a JSON value
RECURSIVE ToJs(_)
RECURSIVE MembersToProps(_, _)
MembersToProps(ms, ps) ==
  IF ms = <<>> THEN OrderProps(ps)
  ELSE MembersToProps(Tail(ms), DefineProp(ps, ms[1][1], ToJs(ms[1][2])))

ToJs(j) ==
  CASE j.t = "lit" -> LitToNumber(j.v[1], j.v[2])
    [] j.t = "arr" -> Arr([i \in 1..Len(j.v) |-> ToJs(j.v[i])])
    [] j.t = "obj" -> Obj(MembersToProps(j.v, <<>>))
    [] OTHER -> j

\* variant of JSONParse: a text that is not JSON yields null
JSONParseLenient(text) ==
  LET r == JsonParse(text) IN
  IF r.ok THEN Ok(ToJs(r.val)) ELSE Ok(Null)

\* JSON.parse(text): the value, or a SyntaxError
JSONParse(text) ==
  LET r == JsonParse(text) IN
  IF r.ok THEN Ok(ToJs(r.val))
  ELSE Throw(<<"Unexpected token or end of JSON input">>)

-----------------------------------------------------------------------------
(* ObsidianApiClient *)

\* variant of NewClient: the Authorization header is stored without the test
\* of the key
NewClientAlwaysAuthorization(cfg) ==
  [baseUrl |-> cfg.baseUrl \o <<"/", "api">>,
   headers |->
     <<<<"Content-Type", <<"application/json">>>>, <<"Accept", <<"application/json">>>>,
       <<"Authorization", <<"Bearer ">> \o ToStr(cfg.apiKey)>>>>]

\* constructor: the base URL and the stored headers
NewClient(cfg) ==
  [baseUrl |-> cfg.baseUrl \o <<"/", "api">>,
   headers |->
     <<<<"Content-Type", <<"application/json">>>>, <<"Accept", <<"application/json">>>>>>
     \o (IF Truthy(cfg.apiKey)
         THEN <<<<"Authorization", <<"Bearer ">> \o ToStr(cfg.apiKey)>>>>
         ELSE <<>>)]

\* { ...a, ...b }: the entries of b replace or follow those of a
RECURSIVE MergeHeaders(_, _)
MergeHeaders(a, b) ==
  IF b = <<>> THEN a ELSE MergeHeaders(DefineProp(a, b[1][1], b[1][2]), Tail(b))

\* options = {}
NoOptions == <<>>

\* request, up to the await of fetch: the call fetch receives.  A method
\* that options does not set is GET.
Request(c, path, options) ==
  Ok([url |-> c.baseUrl \o path,
      method |-> IF "method" \in DOMAIN options THEN options.method ELSE "GET",
      hasBody |-> "body" \in DOMAIN options,
      body |-> IF "body" \in DOMAIN options THEN options.body ELSE <<>>,
      headers |-> MergeHeaders(c.headers,
                               IF "headers" \in DOMAIN options THEN options.headers ELSE <<>>)])

\* variant of ResponseOk: redirections count as success
ResponseOkBelow400(status) == status >= 200 /\ status <= 399

\* response.ok
ResponseOk(status) == status >= 200 /\ status <= 299

\* variant of RequestSettled: a rejection of fetch is reported in general
\* words
RequestSettledGenericFailure(resp) ==
  IF resp.kind = "failure" THEN Throw(<<"Network request failed">>)
  ELSE IF ~ResponseOk(resp.status)
       THEN Throw(<<"API request failed: ">> \o NumberToString(resp.status)
                    \o <<" ">> \o resp.statusText)
       ELSE JSONParse(resp.body)

\* request, from the settling of fetch on: resp is a response, or the
\* failure fetch rejected with
RequestSettled(resp) ==
  IF resp.kind = "failure" THEN Throw(resp.message)
  ELSE IF ~ResponseOk(resp.status)
       THEN Throw(<<"API request failed: ">> \o NumberToString(resp.status)
                    \o <<" ">> \o resp.statusText)
       ELSE JSONParse(resp.body)

\* the first outcome that threw, else the last one
FirstThrow(outcomes) ==
  IF \E i \in 1..Len(outcomes) : outcomes[i].threw
  THEN outcomes[CHOOSE i \in 1..Len(outcomes) :
                  outcomes[i].threw /\ \A j \in 1..(i - 1) : ~outcomes[j].threw]
  ELSE outcomes[Len(outcomes)]

listDirectory(c, path0, recursive0, limit0, offset0) ==
  LET path == Default(path0, Str(<<".">>))
      recursive == Default(recursive0, Bool(FALSE))
      limit == Default(limit0, Num(50))
      offset == Default(offset0, Num(0))
      strs == <<MethodToString(recursive), MethodToString(limit), MethodToString(offset)>>
  IN  IF FirstThrow(strs).threw THEN FirstThrow(strs)
      ELSE Request(c, <<"/", "vault", "/", "directory", "?">>
                        \o URLSearchParamsToString(<<<<"path", ToStr(path)>>,
                                                     <<"recursive", strs[1].val>>,
                                                     <<"limit", strs[2].val>>,
                                                     <<"offset", strs[3].val>>>>),
                   NoOptions)

\* variant of readFile: the path travels in the body of a POST
readFilePosts(c, path) ==
  Request(c, <<"/", "files", "/", "read">>,
          [method |-> "POST",
           body |-> JSONStringify(Obj(<<<<<<"path">>, path>>>>), 0)])

readFile(c, path) ==
  LET enc == EncodeURIComponent(path) IN
  IF enc.threw THEN enc ELSE Request(c, <<"/", "files", "/">> \o enc.val, NoOptions)

writeFile(c, path, content, mode0) ==
  LET mode == Default(mode0, Str(<<"overwrite">>)) IN
  Request(c, <<"/", "files", "/", "write">>,
          [method |-> "POST",
           body |-> JSONStringify(Obj(<<<<<<"path">>, path>>, <<<<"content">>, content>>,
                                       <<<<"mode">>, mode>>>>), 0)])

deleteItem(c, path) ==
  LET enc == EncodeURIComponent(path) IN
  IF enc.threw THEN enc
  ELSE Request(c, <<"/", "files", "/">> \o enc.val, [method |-> "DELETE"])

\* variant of createOrUpdateNote: the body is built as the previous
\* createNote built it, front matter under "frontmatter" and only when given
createOrUpdateNoteAsCreateNote(c, path, content, frontmatter0) ==
  Request(c, <<"/", "notes", "/", "upsert">>,
          [method |-> "POST",
           body |-> JSONStringify(
                      Obj(<<<<<<"path">>, path>>, <<<<"content">>, content>>>>
                          \o (IF Truthy(frontmatter0)
                              THEN <<<<<<"frontmatter">>, frontmatter0>>>> ELSE <<>>)), 0)])

createOrUpdateNote(c, path, content, frontmatter0) ==
  LET frontmatter == Default(frontmatter0, Obj(<<>>)) IN
  Request(c, <<"/", "notes", "/", "upsert">>,
          [method |-> "POST",
           body |-> JSONStringify(Obj(<<<<<<"path">>, path>>, <<<<"content">>, content>>,
                                       <<<<"front_matter">>, frontmatter>>>>), 0)])

getDailyNote(c, date0) ==
  LET date == Default(date0, Str(<<"today">>)) IN
  Request(c, <<"/", "vault", "/", "notes", "/", "daily", "?">>
               \o URLSearchParamsToString(<<<<"date", ToStr(date)>>>>),
          NoOptions)

\* variant of getRecentNotes: another default limit
getRecentNotesDefault10(c, limit0) ==
  LET limit == MethodToString(Default(limit0, Num(10))) IN
  IF limit.threw THEN limit
  ELSE Request(c, <<"/", "vault", "/", "notes", "/", "recent", "?">>
                    \o URLSearchParamsToString(<<<<"limit", limit.val>>>>),
               NoOptions)

getRecentNotes(c, limit0) ==
  LET limit == MethodToString(Default(limit0, Num(5))) IN
  IF limit.threw THEN limit
  ELSE Request(c, <<"/", "vault", "/", "notes", "/", "recent", "?">>
                    \o URLSearchParamsToString(<<<<"limit", limit.val>>>>),
               NoOptions)

\* variant of searchVault: path_filter is appended whatever its value
searchVaultAlwaysFilter(c, query, scope0, pathFilter) ==
  LET scope == MethodJoin(Default(scope0, Arr(<<Str(<<"content">>), Str(<<"filename">>),
                                                Str(<<"tags">>)>>)), "scope")
  IN  IF scope.threw THEN scope
      ELSE Request(c, <<"/", "vault", "/", "search", "?">>
                        \o URLSearchParamsToString(
                             <<<<"query", ToStr(query)>>, <<"scope", scope.val>>,
                               <<"path_filter", ToStr(pathFilter)>>>>),
                   NoOptions)

searchVault(c, query, scope0, pathFilter) ==
  LET scope == MethodJoin(Default(scope0, Arr(<<Str(<<"content">>), Str(<<"filename">>),
                                                Str(<<"tags">>)>>)), "scope")
  IN  IF scope.threw THEN scope
      ELSE Request(c, <<"/", "vault", "/", "search", "?">>
                        \o URLSearchParamsToString(
                             <<<<"query", ToStr(query)>>, <<"scope", scope.val>>>>
                             \o (IF Truthy(pathFilter)
                                 THEN <<<<"path_filter", ToStr(pathFilter)>>>>
                                 ELSE <<>>)),
                   NoOptions)

findRelatedNotes(c, path, on0) ==
  LET on == MethodJoin(Default(on0, Arr(<<Str(<<"tags">>), Str(<<"links">>)>>)), "on")
      enc == EncodeURIComponent(path)
  IN  IF on.threw THEN on
      ELSE IF enc.threw THEN enc
      ELSE Request(c, <<"/", "vault", "/", "notes", "/", "related", "/">> \o enc.val
                        \o <<"?">> \o URLSearchParamsToString(<<<<"on", on.val>>>>),
                   NoOptions)

listNotes(c) == Request(c, <<"/", "notes">>, NoOptions)

getNote(c, path) ==
  LET enc == EncodeURIComponent(path) IN
  IF enc.threw THEN enc ELSE Request(c, <<"/", "notes", "/">> \o enc.val, NoOptions)

getMetadataKeys(c) == Request(c, <<"/", "metadata", "/", "keys">>, NoOptions)

getMetadataValues(c, key) ==
  LET enc == EncodeURIComponent(key) IN
  IF enc.threw THEN enc
  ELSE Request(c, <<"/", "metadata", "/", "values", "/">> \o enc.val, NoOptions)

-----------------------------------------------------------------------------
(* ObsidianMcpServer: the list-tools handler *)

\* a property of an input schema (descriptions are left out); default is
\* Undefined, enum and items are empty, where the schema declares none
Prop(name, type) ==
  [name |-> name, type |-> type, default |-> Undefined, enum |-> <<>>, items |-> <<>>]

PropDefault(name, type, default) ==
  [name |-> name, type |-> type, default |-> default, enum |-> <<>>, items |-> <<>>]

\* variant of Tool: delete_item is published under its legacy name
ToolLegacyName(name, properties, required) ==
  [name |-> IF name = "delete_item" THEN "delete_file" ELSE name,
   properties |-> properties, required |-> required]

Tool(name, properties, required) ==
  [name |-> name, properties |-> properties, required |-> required]

\* the tools array the ListToolsRequestSchema handler returns
ListTools ==
  <<Tool("list_directory",
         <<PropDefault("path", "string", Str(<<".">>)),
           PropDefault("recursive", "boolean", Bool(FALSE)),
           PropDefault("limit", "number", Num(50)),
           PropDefault("offset", "number", Num(0))>>,
         <<>>),
    Tool("read_file", <<Prop("path", "string")>>, <<"path">>),
    Tool("write_file",
         <<Prop("path", "string"),
           Prop("content", "string"),
           [name |-> "mode", type |-> "string", default |-> Str(<<"overwrite">>),
            enum |-> <<"overwrite", "append", "prepend">>, items |-> <<>>]>>,
         <<"path", "content">>),
    Tool("delete_item", <<Prop("path", "string")>>, <<"path">>),
    Tool("create_or_update_note",
         <<Prop("path", "string"),
           Prop("content", "string"),
           PropDefault("frontmatter", "object", Obj(<<>>))>>,
         <<"path", "content">>),
    Tool("get_daily_note", <<PropDefault("date", "string", Str(<<"today">>))>>, <<>>),
    Tool("get_recent_notes", <<PropDefault("limit", "number", Num(5))>>, <<>>),
    Tool("search_vault",
         <<Prop("query", "string"),
           [name |-> "scope", type |-> "array",
            default |-> Arr(<<Str(<<"content">>), Str(<<"filename">>), Str(<<"tags">>)>>),
            enum |-> <<>>, items |-> <<"content", "filename", "tags">>],
           Prop("path_filter", "string")>>,
         <<"query">>),
    Tool("find_related_notes",
         <<Prop("path", "string"),
           [name |-> "on", type |-> "array",
            default |-> Arr(<<Str(<<"tags">>), Str(<<"links">>)>>),
            enum |-> <<>>, items |-> <<"tags", "links">>]>>,
         <<"path">>),
    Tool("get_note", <<Prop("path", "string")>>, <<"path">>),
    Tool("list_notes", <<Prop("search", "string")>>, <<>>),
    Tool("get_metadata_keys", <<>>, <<>>),
    Tool("get_metadata_values", <<Prop("key", "string")>>, <<"key">>)>>

-----------------------------------------------------------------------------
(* ObsidianMcpServer: the call-tool handler *)

\* variant of ListNotesCase: the search argument is ignored
ListNotesCaseNoSearch(c, args) == listNotes(c)

\* variant of ListNotesCase: the scope and path_filter arguments of the
\* call are handed on to the search
ListNotesCaseForwardsFilter(c, args) ==
  LET searchQuery == Arg(args, "search") IN
  IF Truthy(searchQuery)
  THEN searchVault(c, searchQuery, Arg(args, "scope"), Arg(args, "path_filter"))
  ELSE listNotes(c)

\* case "list_notes": the enhanced search when a search query is given,
\* the plain listing otherwise
ListNotesCase(c, args) ==
  LET searchQuery == Arg(args, "search") IN
  IF Truthy(searchQuery)
  THEN searchVault(c, searchQuery,
                   Arr(<<Str(<<"content">>), Str(<<"filename">>), Str(<<"tags">>)>>),
                   Undefined)
  ELSE listNotes(c)

\* variant of UnknownTool: the message does not name the tool
UnknownToolNoName(name) == Throw(<<"Unknown tool">>)

\* the default case of the switch
UnknownTool(name) == Throw(<<"Unknown tool: ", name>>)

\* the switch of the handler, up to the first await: the fetch call the
\* selected client method makes, or what was thrown before any was made
Dispatch(c, name, args) ==
  CASE name = "list_directory" ->
         listDirectory(c, Arg(args, "path"), Arg(args, "recursive"),
                       Arg(args, "limit"), Arg(args, "offset"))
    [] name = "read_file" -> readFile(c, Arg(args, "path"))
    [] name = "write_file" ->
         writeFile(c, Arg(args, "path"), Arg(args, "content"), Arg(args, "mode"))
    [] name = "delete_item" -> deleteItem(c, Arg(args, "path"))
    [] name = "create_or_update_note" ->
         createOrUpdateNote(c, Arg(args, "path"), Arg(args, "content"),
                            Arg(args, "frontmatter"))
    [] name = "get_daily_note" -> getDailyNote(c, Arg(args, "date"))
    [] name = "get_recent_notes" -> getRecentNotes(c, Arg(args, "limit"))
    [] name = "search_vault" ->
         searchVault(c, Arg(args, "query"), Arg(args, "scope"), Arg(args, "path_filter"))
    [] name = "find_related_notes" ->
         findRelatedNotes(c, Arg(args, "path"), Arg(args, "on"))
    [] name = "list_notes" -> ListNotesCase(c, args)
    [] name = "get_note" -> getNote(c, Arg(args, "path"))
    [] name = "get_metadata_keys" -> getMetadataKeys(c)
    [] name = "get_metadata_values" -> getMetadataValues(c, Arg(args, "key"))
    [] OTHER -> UnknownTool(name)

\* variant of SuccessEnvelope: the result is converted with String()
SuccessEnvelopeString(result) ==
  [content |-> <<[type |-> "text", text |-> ToStr(result)]>>]

\* variant of SuccessEnvelope: JSON.stringify without the indentation
SuccessEnvelopeCompact(result) ==
  [content |-> <<[type |-> "text", text |-> JSONStringify(result, 0)]>>]

\* the envelope of the try block's return
SuccessEnvelope(result) ==
  [content |-> <<[type |-> "text", text |-> JSONStringify(result, 2)]>>]

\* the envelope of the catch block's return (every value the handler's
\* callees throw is an Error)
ErrorEnvelope(message) ==
  [content |-> <<[type |-> "text", text |-> <<"Error: ">> \o message]>>, isError |-> TRUE]

\* variant of HandlerReturn: no catch clause, a thrown error leaves the
\* handler
HandlerReturnNoCatch(outcome) ==
  IF outcome.threw
  THEN [returned |-> FALSE, envelope |-> <<>>]
  ELSE [returned |-> TRUE, envelope |-> SuccessEnvelope(outcome.val)]

\* how an execution of the handler ends on outcome (the result of the
\* switch, or what was thrown inside the try block): the catch clause
\* covers the whole body, so the handler always returns an envelope
HandlerReturn(outcome) ==
  IF outcome.threw
  THEN [returned |-> TRUE, envelope |-> ErrorEnvelope(outcome.val)]
  ELSE [returned |-> TRUE, envelope |-> SuccessEnvelope(outcome.val)]

-----------------------------------------------------------------------------
(* The start of the process *)

\* args.includes(flag)
Includes(args, flag) == \E i \in 1..Len(args) : args[i] = flag

\* obj[key] of a parsed JSON value
GetProp(obj, key) ==
  IF obj.t = "obj" /\ \E i \in 1..Len(obj.v) : obj.v[i][1] = key
  THEN obj.v[CHOOSE i \in 1..Len(obj.v) : obj.v[i][1] = key][2]
  ELSE Undefined

\* packageJson.version, as console.log writes it
VersionOf(packageJson) ==
  IF packageJson.threw THEN packageJson
  ELSE Ok(ToStr(GetProp(packageJson.val, <<"version">>)))

\* variant of VersionOutput: the version the protocol server announces
VersionOutputOfServer(packageText) == Ok(<<"1", ".", "0", ".", "0">>)

\* JSON.parse(readFileSync(packagePath, 'utf8')).version
VersionOutput(packageText) == VersionOf(JSONParse(packageText))

\* the usage text of --help
UsageText ==
  <<"\n", "Obsidian Local REST API MCP Server", "\n", "\n",
    "Usage: obsidian-local-rest-api-mcp [options]", "\n", "\n",
    "Options:", "\n", "Environment Variables:", "\n",
    "Example Claude Desktop configuration:", "\n">>

DefaultBaseUrl == <<"http://obsidian-local-rest-api.test">>

\* the first pieces that are a scheme and an authority
Origins == {"http://obsidian-local-rest-api.test", "http://localhost:8000"}

\* z.string().url(): the URL parser accepts the text
IsUrl(text) == text # <<>> /\ text[1] \in Origins

\* variant of ConfigSchemaParse: baseUrl is any string
ConfigSchemaParseAnyString(raw) ==
  LET baseUrl == Default(raw.baseUrl, Str(DefaultBaseUrl)) IN
  IF baseUrl.t # "str" THEN Throw(<<"Expected string">>)
  ELSE IF raw.apiKey.t \notin {"undefined", "str"} THEN Throw(<<"Expected string">>)
  ELSE Ok([baseUrl |-> baseUrl.v, apiKey |-> raw.apiKey])

\* ConfigSchema.parse
ConfigSchemaParse(raw) ==
  LET baseUrl == Default(raw.baseUrl, Str(DefaultBaseUrl)) IN
  IF baseUrl.t # "str" THEN Throw(<<"Expected string">>)
  ELSE IF ~IsUrl(baseUrl.v) THEN Throw(<<"Invalid url">>)
  ELSE IF raw.apiKey.t \notin {"undefined", "str"} THEN Throw(<<"Expected string">>)
  ELSE Ok([baseUrl |-> baseUrl.v, apiKey |-> raw.apiKey])

\* main, its first statement: the configuration read from the environment
ReadConfig(e) ==
  ConfigSchemaParse([baseUrl |-> IF Truthy(e.OBSIDIAN_API_URL) THEN e.OBSIDIAN_API_URL
                                 ELSE Str(DefaultBaseUrl),
                     apiKey |-> e.OBSIDIAN_API_KEY])

\* console.error("Fatal error:", error)
FatalLine(message) == <<"Fatal error:", " ">> \o message

\* console.error of start
StartupLine == <<"Obsidian MCP Server running on stdio">>

-----------------------------------------------------------------------------
(* The inputs of the model *)

\* the most calls the protocol client keeps in flight
MaxInFlight == 2

Slots == 1..MaxInFlight

\* valid configurations: the default base URL without a key, and a local
\* one with a key or with an empty key
Configs ==
  {[baseUrl |-> <<"http://obsidian-local-rest-api.test">>, apiKey |-> Undefined],
   [baseUrl |-> <<"http://localhost:8000">>, apiKey |-> Str(<<"secret">>)],
   [baseUrl |-> <<"http://localhost:8000">>, apiKey |-> Str(<<>>)]}

\* vault paths and metadata keys: plain, nested, dot segments, empty,
\* reserved characters, an unpaired surrogate
PathArgs ==
  {<<"note">>, <<"folder", "/", "note">>, <<".", ".">>, <<".">>, <<>>,
   <<".", ".", "/", "x">>, <<"a", " ", "b", "%">>, <<"x", "?", "y", "#", "&", "=">>,
   <<LoneSurrogate>>}

PathTools == {"read_file", "delete_item", "get_note", "find_related_notes"}

Inv(name, args) == [name |-> name, args |-> args]

SomeText == Str(<<"hello", " ", "\"", "w", "\"", "\n">>)

SomeFrontmatter == Obj(<<<<<<"tags">>, Arr(<<Str(<<"a">>), Str(<<"b">>)>>)>>>>)

Invocations ==
  {Inv(n, "path" :> Str(p)) : n \in PathTools, p \in PathArgs}
  \cup {Inv("get_metadata_values", "key" :> Str(p)) : p \in PathArgs}
  \cup {Inv(n, <<>>) : n \in {t.name : t \in {ListTools[i] : i \in 1..Len(ListTools)}}}
  \cup {Inv(n, <<>>) : n \in {"not_a_real_tool", "", "List_Notes", "list_files", "create_note",
                              "search_notes", "toString"}}
  \cup {Inv(n, "path" :> Str(<<"note">>)) : n \in {"get_file", "delete_file", "delete_note"}}
  \cup {Inv(n, ("path" :> Str(<<"a", ".", "md">>)) @@ ("content" :> SomeText)) :
          n \in {"create_file", "update_file", "create_note", "update_note"}}
  \cup {Inv("search_notes", "query" :> Str(<<"foo">>))}
  \cup {Inv("list_directory", a) :
          a \in {("path" :> Str(<<"docs", "/", "a", " ", "b">>)) @@ ("recursive" :> Bool(TRUE))
                   @@ ("limit" :> Num(10)) @@ ("offset" :> Num(5)),
                 "recursive" :> Null,
                 "limit" :> Str(<<"many">>)}}
  \cup {Inv("write_file", ("path" :> Str(<<"a", ".", "md">>)) @@ ("content" :> SomeText) @@ a) :
          a \in {<<>>, "mode" :> Str(<<"append">>), "mode" :> Str(<<"prepend">>),
                 "mode" :> Str(<<"overwrite">>), "mode" :> Str(<<"truncate">>), "mode" :> Null}}
  \cup {Inv("create_or_update_note",
            ("path" :> Str(<<"n">>)) @@ ("content" :> SomeText) @@ a) :
          a \in {<<>>, "frontmatter" :> SomeFrontmatter, "frontmatter" :> Null}}
  \cup {Inv("get_daily_note", "date" :> d) :
          d \in {Str(<<"yesterday">>), Str(<<"2", "0", "2", "4", "-", "0", "1", "-", "3", "1">>),
                 Str(<<>>)}}
  \cup {Inv("get_recent_notes", "limit" :> l) : l \in {Num(3), Num(0), Null}}
  \cup {Inv("search_vault", ("query" :> Str(<<"a", " ", "b", "&", "c">>)) @@ a) :
          a \in {<<>>,
                 "scope" :> Arr(<<Str(<<"tags">>), Str(<<"content">>)>>),
                 "scope" :> Arr(<<>>),
                 "scope" :> Str(<<"content">>),
                 "path_filter" :> Str(<<"docs", "/">>),
                 "path_filter" :> Str(<<>>),
                 ("scope" :> Arr(<<Str(<<"filename">>)>>)) @@ ("path_filter" :> Str(<<"x">>))}}
  \cup {Inv("search_vault", "query" :> Str(<<"a", LoneSurrogate>>))}
  \cup {Inv("find_related_notes", ("path" :> Str(<<"n">>)) @@ a) :
          a \in {"on" :> Arr(<<Str(<<"links">>)>>), "on" :> Str(<<"tags">>)}}
  \cup {Inv("list_notes", a) :
          a \in {"search" :> Str(<<"foo">>),
                 "search" :> Str(<<>>),
                 "search" :> Str(<<"a", " ", "b", ",", "c">>),
                 "search" :> Null,
                 "search" :> Num(0),
                 "search" :> Num(7),
                 ("search" :> Str(<<"foo">>)) @@ ("path_filter" :> Str(<<"docs">>))
                   @@ ("scope" :> Arr(<<Str(<<"tags">>)>>)),
                 ("path_filter" :> Str(<<"docs">>)) @@ ("scope" :> Arr(<<Str(<<"tags">>)>>))}}

\* process.argv.slice(2)
Argvs == {<<>>, <<"--version">>, <<"-v">>, <<"--help">>, <<"-h">>, <<"-h", "--version">>}

Environment(url, key) == [OBSIDIAN_API_URL |-> url, OBSIDIAN_API_KEY |-> key]

\* process.env: nothing set, a local URL with a key or with an empty key,
\* an empty URL, and two texts that are not URLs
Envs ==
  {Environment(Undefined, Undefined),
   Environment(Str(<<"http://localhost:8000">>), Str(<<"secret">>)),
   Environment(Str(<<"http://localhost:8000">>), Str(<<>>)),
   Environment(Str(<<>>), Undefined),
   Environment(Str(<<"not a url">>), Str(<<"secret">>)),
   Environment(Str(<<"localhost">>), Undefined)}

\* the text of package.json
PackageJson(version) ==
  <<"{", "\"", "name", "\"", ":", "\"", "obsidian-local-rest-api-mcp", "\"", ",",
    "\"", "version", "\"", ":", "\"">> \o version \o <<"\"", "}", "\n">>

PackageVersions == {<<"1", ".", "1", ".", "0">>, <<"1", ".", "0", ".", "3">>}

PackageJsons == {PackageJson(v) : v \in PackageVersions}

\* connecting the transport fails with one of these messages
ConnectFailures == {<<"transport failed to start">>}

Response(status, statusText, body) ==
  [kind |-> "response", status |-> status, statusText |-> statusText, body |-> body,
   message |-> <<>>]

\* fetch rejects: no response was received
Failure(message) ==
  [kind |-> "failure", status |-> 0, statusText |-> <<>>, body |-> <<>>, message |-> message]

\* response bodies that are JSON texts
JsonBodies ==
  {<<"{", "\"", "path", "\"", ":", "\"", "a", "\"", ",", "\"", "n", "\"", ":", "1", "2", "}">>,
   <<"{", "\"", "b", "\"", ":", "[", "1", ",", "\"", "x", " ", "y", "\"", "]", ",",
     "\"", "1", "\"", ":", "{", "}", "}">>,
   <<"[", "null", ",", " ", "true", ",", "-", "5", ",", "[", "]", "]">>,
   <<"\"", "a", "\\", "\"", "b", "\\", "n", "\"">>,
   <<"null">>,
   <<"true">>,
   <<"false">>,
   <<"0">>,
   <<"1", "e", "4", "0", "0">>,
   <<"{", "\"", "big", "\"", ":", "[", "-", "2", "E", "+", "9", "9", "9", "]", "}">>,
   <<" ", "{", "\n", "\"", "a", "\"", " ", ":", " ", "7", "0", "\n", "}", "\n">>}

\* response bodies that are not JSON texts
BadBodies ==
  {<<>>, <<" ">>, <<"{">>, <<"<html>">>, <<"[", "1", ",", "]">>, <<"null", " ", "null">>,
   <<"\"", "a">>, <<"{", "\"", "a", "\"", "}">>}

Responses ==
  {Response(200, <<"OK">>, b) : b \in JsonBodies \cup BadBodies}
  \cup {Response(201, <<"Created">>, b) : b \in {<<"true">>, <<"{">>}}
  \cup {Response(204, <<"No Content">>, <<>>), Response(299, <<>>, <<"null">>)}
  \cup {Response(st[1], st[2], b) :
          st \in {<<300, <<"Multiple Choices">>>>,
                  <<304, <<"Not Modified">>>>, <<401, <<"Unauthorized">>>>,
                  <<404, <<"Not Found">>>>, <<500, <<"Internal Server Error">>>>},
          b \in {<<"{", "}">>, <<>>}}
  \cup {Failure(<<"fetch failed">>), Failure(<<>>)}

-----------------------------------------------------------------------------
(* The running server *)

NoRequest == [url |-> <<>>, method |-> "", hasBody |-> FALSE, body |-> <<>>, headers |-> <<>>]

NoResult == [returned |-> FALSE, envelope |-> <<>>]

\* a call slot: phase is "idle", "awaiting" (the handler is suspended in
\* the await of fetch) or "done" (the handler has ended); sent counts the
\* fetch calls the handler made
IdleCall ==
  [phase |-> "idle", name |-> "", args |-> <<>>, sent |-> 0, req |-> NoRequest,
   resp |-> Failure(<<>>), result |-> NoResult]

\* proc.state is "start" (nothing has run), "connecting" (main is suspended
\* in the await of connect), "running" or "exited"
NoConfig == [baseUrl |-> <<>>, apiKey |-> Undefined]

NoClient == [baseUrl |-> <<>>, headers |-> <<>>]

Exited(code) == [state |-> "exited", code |-> code]

Init ==
  /\ argv \in Argvs
  /\ env \in Envs
  /\ pkg \in PackageJsons
  /\ config = NoConfig
  /\ client = NoClient
  /\ server = <<>>
  /\ proc = [state |-> "start", code |-> 0]
  /\ stdout = <<>>
  /\ stderr = <<>>
  /\ calls = [s \in Slots |-> IdleCall]
  /\ listed = <<>>

\* the --version branch: console.log(packageJson.version), process.exit(0);
\* an exception of readFileSync or JSON.parse would end the process
PrintVersion(line) ==
  /\ stdout' = IF line.threw THEN stdout ELSE Append(stdout, line.val)
  /\ stderr' = IF line.threw THEN Append(stderr, line.val) ELSE stderr
  /\ proc' = Exited(IF line.threw THEN 1 ELSE 0)
  /\ UNCHANGED <<config, client, server>>

\* the --help branch
PrintUsage ==
  /\ stdout' = Append(stdout, UsageText)
  /\ proc' = Exited(0)
  /\ UNCHANGED <<config, client, server, stderr>>

ListToolsRequestSchema == "tools/list"
CallToolRequestSchema == "tools/call"

\* the calls the process makes on the protocol server, in their order
SetRequestHandler(schema) == <<"setRequestHandler", schema>>
Connect == <<"connect", "StdioServerTransport">>

\* setupTools: the list-tools handler, then the call-tool handler
setupTools == <<SetRequestHandler(ListToolsRequestSchema), SetRequestHandler(CallToolRequestSchema)>>

\* variant of Main: the transport is connected before the handlers are
\* registered
MainConnectsFirst(parsed) ==
  IF parsed.threw
  THEN /\ stderr' = Append(stderr, FatalLine(parsed.val))
       /\ proc' = Exited(1)
       /\ UNCHANGED <<config, client, server, stdout>>
  ELSE /\ config' = parsed.val
       /\ client' = NewClient(parsed.val)
       /\ server' = <<Connect>> \o setupTools
       /\ proc' = [state |-> "connecting", code |-> 0]
       /\ UNCHANGED <<stdout, stderr>>

\* main, to the await of connect: the configuration, the constructor of
\* the server with setupTools, then start with the call of connect; and
\* main().catch for a configuration that ConfigSchema rejects
Main(parsed) ==
  IF parsed.threw
  THEN /\ stderr' = Append(stderr, FatalLine(parsed.val))
       /\ proc' = Exited(1)
       /\ UNCHANGED <<config, client, server, stdout>>
  ELSE /\ config' = parsed.val
       /\ client' = NewClient(parsed.val)
       /\ server' = setupTools \o <<Connect>>
       /\ proc' = [state |-> "connecting", code |-> 0]
       /\ UNCHANGED <<stdout, stderr>>

\* the module body and main run to the first await: the flags, the signal
\* handlers, the configuration, the server and its handlers, the call of
\* connect; a rejection of main is caught by main().catch
Startup ==
  /\ proc.state = "start"
  /\ IF Includes(argv, "--version") \/ Includes(argv, "-v")
     THEN PrintVersion(VersionOutput(pkg))
     ELSE IF Includes(argv, "--help") \/ Includes(argv, "-h")
     THEN PrintUsage
     ELSE Main(ReadConfig(env))
  /\ UNCHANGED <<launch, calls, listed>>

\* variant of ConnectResolves: the confirmation goes to standard output
ConnectResolvesLog ==
  /\ proc.state = "connecting"
  /\ stdout' = Append(stdout, StartupLine)
  /\ proc' = [state |-> "running", code |-> 0]
  /\ UNCHANGED <<launch, config, client, server, stderr, calls, listed>>

\* connect resolves: start writes the confirmation and arms the keep-alive
\* timer, main ends
ConnectResolves ==
  /\ proc.state = "connecting"
  /\ stderr' = Append(stderr, StartupLine)
  /\ proc' = [state |-> "running", code |-> 0]
  /\ UNCHANGED <<launch, config, client, server, stdout, calls, listed>>

\* connect rejects: main rejects and main().catch ends the process
ConnectRejects(message) ==
  /\ proc.state = "connecting"
  /\ stderr' = Append(stderr, FatalLine(message))
  /\ proc' = Exited(1)
  /\ UNCHANGED <<launch, config, client, server, stdout, calls, listed>>

\* variant of ListToolsRequest: after a call that ended in an error the
\* first tool is no longer published
ListToolsRequestAfterError ==
  /\ proc.state = "running"
  /\ listed' = IF \E s \in Slots : /\ calls[s].phase = "done"
                                   /\ "isError" \in DOMAIN calls[s].result.envelope
               THEN Tail(ListTools) ELSE ListTools
  /\ UNCHANGED <<launch, config, client, server, proc, stdout, stderr, calls>>

\* the list-tools handler runs
ListToolsRequest ==
  /\ proc.state = "running"
  /\ listed' = ListTools
  /\ UNCHANGED <<launch, config, client, server, proc, stdout, stderr, calls>>

\* variant of CallToolRequest: the headers of the request are kept in the
\* client, with a header that names the tool
CallToolRequestStoresHeaders(s, inv) ==
  /\ proc.state = "running"
  /\ calls[s].phase = "idle"
  /\ LET out == Dispatch(client, inv.name, inv.args) IN
     calls' = [calls EXCEPT ![s] =
                 IF out.threw
                 THEN [phase |-> "done", name |-> inv.name, args |-> inv.args, sent |-> 0,
                       req |-> NoRequest, resp |-> Failure(<<>>),
                       result |-> HandlerReturn(out)]
                 ELSE [phase |-> "awaiting", name |-> inv.name, args |-> inv.args, sent |-> 1,
                       req |-> out.val, resp |-> Failure(<<>>), result |-> NoResult]]
  /\ client' = [client EXCEPT !.headers = DefineProp(@, "X-Tool", <<inv.name>>)]
  /\ UNCHANGED <<launch, config, server, proc, stdout, stderr, listed>>

\* variant of CallToolRequest: the request carries a header that tells
\* whether another call is waiting for its response
CallToolRequestMarksBusy(s, inv) ==
  /\ proc.state = "running"
  /\ calls[s].phase = "idle"
  /\ LET out == Dispatch(client, inv.name, inv.args)
         busy == IF \E t \in Slots : calls[t].phase = "awaiting"
                 THEN <<"true">> ELSE <<"false">>
     IN
     calls' = [calls EXCEPT ![s] =
                 IF out.threw
                 THEN [phase |-> "done", name |-> inv.name, args |-> inv.args, sent |-> 0,
                       req |-> NoRequest, resp |-> Failure(<<>>),
                       result |-> HandlerReturn(out)]
                 ELSE [phase |-> "awaiting", name |-> inv.name, args |-> inv.args, sent |-> 1,
                       req |-> [out.val EXCEPT
                                  !.headers = DefineProp(@, "X-Busy", busy)],
                       resp |-> Failure(<<>>), result |-> NoResult]]
  /\ UNCHANGED <<launch, config, client, server, proc, stdout, stderr, listed>>

\* the call-tool handler is entered for an invocation and runs to its
\* first await, or to its end if the switch throws before any fetch
CallToolRequest(s, inv) ==
  /\ proc.state = "running"
  /\ calls[s].phase = "idle"
  /\ LET out == Dispatch(client, inv.name, inv.args) IN
     calls' = [calls EXCEPT ![s] =
                 IF out.threw
                 THEN [phase |-> "done", name |-> inv.name, args |-> inv.args, sent |-> 0,
                       req |-> NoRequest, resp |-> Failure(<<>>),
                       result |-> HandlerReturn(out)]
                 ELSE [phase |-> "awaiting", name |-> inv.name, args |-> inv.args, sent |-> 1,
                       req |-> out.val, resp |-> Failure(<<>>), result |-> NoResult]]
  /\ UNCHANGED <<launch, config, client, server, proc, stdout, stderr, listed>>

\* variant of FetchSettles: responses are handed to the handlers in the
\* order of the calls, so a pending call holds back the calls after it
FetchSettlesInOrder(s, resp) ==
  /\ proc.state = "running"
  /\ calls[s].phase = "awaiting"
  /\ \A t \in Slots : t < s => calls[t].phase # "awaiting"
  /\ calls' = [calls EXCEPT ![s] =
                 [@ EXCEPT !.phase = "done", !.resp = resp,
                           !.result = HandlerReturn(RequestSettled(resp))]]
  /\ UNCHANGED <<launch, config, client, server, proc, stdout, stderr, listed>>

\* variant of FetchSettles: after a rejection of fetch the request is sent
\* once more
FetchSettlesRetries(s, resp) ==
  /\ proc.state = "running"
  /\ calls[s].phase = "awaiting"
  /\ calls' = [calls EXCEPT ![s] =
                 IF resp.kind = "failure" /\ calls[s].sent < 2
                 THEN [@ EXCEPT !.sent = @ + 1]
                 ELSE [@ EXCEPT !.phase = "done", !.resp = resp,
                                !.result = HandlerReturn(RequestSettled(resp))]]
  /\ UNCHANGED <<launch, config, client, server, proc, stdout, stderr, listed>>

\* fetch settles with resp and the handler runs to its end
FetchSettles(s, resp) ==
  /\ proc.state = "running"
  /\ calls[s].phase = "awaiting"
  /\ calls' = [calls EXCEPT ![s] =
                 [@ EXCEPT !.phase = "done", !.resp = resp,
                           !.result = HandlerReturn(RequestSettled(resp))]]
  /\ UNCHANGED <<launch, config, client, server, proc, stdout, stderr, listed>>

\* the protocol layer sends the value the handler returned as the response
\* of the call, which ends the call
Respond(s) ==
  /\ proc.state = "running"
  /\ calls[s].phase = "done"
  /\ calls' = [calls EXCEPT ![s] = IdleCall]
  /\ UNCHANGED <<launch, config, client, server, proc, stdout, stderr, listed>>

\* variant of Signal: the process ends with the conventional code of a
\* process that a signal killed
SignalExits130 ==
  /\ proc.state \in {"connecting", "running"}
  /\ proc' = Exited(130)
  /\ UNCHANGED <<launch, config, client, server, stdout, stderr, calls, listed>>

\* SIGINT or SIGTERM, once the handlers are registered and the event loop
\* runs: process.exit(0)
Signal ==
  /\ proc.state \in {"connecting", "running"}
  /\ proc' = Exited(0)
  /\ UNCHANGED <<launch, config, client, server, stdout, stderr, calls, listed>>

\* the protocol client issues one call at a time
Next ==
  \/ Startup
  \/ ConnectResolves
  \/ \E message \in ConnectFailures : ConnectRejects(message)
  \/ ListToolsRequest
  \/ \E inv \in Invocations : CallToolRequest(1, inv)
  \/ \E resp \in Responses : FetchSettles(1, resp)
  \/ Respond(1)
  \/ Signal

Spec == Init /\ [][Next]_vars

\* no --version, -v, --help or -h among the arguments
ServerMode ==
  ~(Includes(argv, "--version") \/ Includes(argv, "-v")
    \/ Includes(argv, "--help") \/ Includes(argv, "-h"))

\* a few invocations and outcomes of fetch, for the specification whose
\* subject is the life of the process rather than the calls
FewInvocations ==
  {Inv("list_notes", <<>>), Inv("read_file", "path" :> Str(<<"note">>)),
   Inv("not_a_real_tool", <<>>)}

FewResponses ==
  {Response(200, <<"OK">>, <<"null">>), Response(404, <<"Not Found">>, <<>>),
   Failure(<<"fetch failed">>)}

LiveNext ==
  \/ Startup
  \/ ConnectResolves
  \/ \E message \in ConnectFailures : ConnectRejects(message)
  \/ ListToolsRequest
  \/ \E inv \in FewInvocations : CallToolRequest(1, inv)
  \/ \E resp \in FewResponses : FetchSettles(1, resp)
  \/ Respond(1)
  \/ Signal

\* main runs when the process is started as a server, and the promise of
\* connect settles
LiveSpec ==
  /\ Init
  /\ [][LiveNext]_vars
  /\ WF_vars(ServerMode /\ Startup)
  /\ WF_vars(ConnectResolves \/ \E message \in ConnectFailures : ConnectRejects(message))

\* invocations and outcomes of fetch for calls in flight at the same time
ConcInvocations ==
  FewInvocations
  \cup {Inv("write_file", ("path" :> Str(<<"a", ".", "md">>)) @@ ("content" :> SomeText))}

ConcResponses == FewResponses \cup {Response(200, <<"OK">>, <<"true">>)}

\* the protocol client keeps up to MaxInFlight calls in flight: a handler
\* execution is suspended in its await while others start, settle and end
ConcNext ==
  \/ Startup
  \/ ConnectResolves
  \/ \E message \in ConnectFailures : ConnectRejects(message)
  \/ ListToolsRequest
  \/ \E s \in Slots, inv \in ConcInvocations : CallToolRequest(s, inv)
  \/ \E s \in Slots, resp \in ConcResponses : FetchSettles(s, resp)
  \/ \E s \in Slots : Respond(s)
  \/ Signal

ConcSpec == Init /\ [][ConcNext]_vars

-----------------------------------------------------------------------------
(* Vocabulary of the properties *)

\* the tool names the list-tools operation publishes
ListedNames == {ListTools[i].name : i \in 1..Len(ListTools)}

\* the calls whose handler has ended
Done == {s \in Slots : calls[s].phase = "done"}

\* the calls whose handler has called fetch
Sent == {s \in Slots : calls[s].phase # "idle" /\ calls[s].sent > 0}

IsErrorEnvelope(e) == "isError" \in DOMAIN e /\ e.isError = TRUE

IsSuccessEnvelope(e) == "isError" \notin DOMAIN e

OneTextBlock(e) == Len(e.content) = 1 /\ e.content[1].type = "text"

\* sub occurs in text
Contains(text, sub) ==
  \E i \in 1..(Len(text) - Len(sub) + 1) : SubSeq(text, i, i + Len(sub) - 1) = sub

\* the request target of a call as the vault API receives it
Target(s) == FetchTarget(calls[s].req.url)

\* the value of query parameter name of a call's request; <<"(none)">> when
\* the request has no such parameter
QueryParam(s, name) ==
  LET ps == ParseQuery(Target(s).query) IN
  IF \E i \in 1..Len(ps) : ps[i][1] = <<name>>
  THEN ps[CHOOSE i \in 1..Len(ps) : ps[i][1] = <<name>>][2]
  ELSE <<"(none)">>

\* the path segments of a request below the base URL's /api
Segments(s) == Tail(Target(s).segments)

-----------------------------------------------------------------------------
(* C1: a call of a tool name that is not in the published catalog returns  *)
(* (does not throw) an error envelope whose single text block is           *)
(* "Error: Unknown tool: <name>", and issues no request.                   *)
C1_UnknownToolIsErrorEnvelope ==
  \A s \in Slots :
    (calls[s].phase # "idle" /\ calls[s].name \notin ListedNames) =>
      /\ calls[s].phase = "done"
      /\ calls[s].sent = 0
      /\ calls[s].result.returned
      /\ IsErrorEnvelope(calls[s].result.envelope)
      /\ OneTextBlock(calls[s].result.envelope)
      /\ calls[s].result.envelope.content[1].text
           = <<"Error: ", "Unknown tool: ", calls[s].name>>

C1_Witness ==
  \E s \in Done :
    /\ calls[s].name = "not_a_real_tool"
    /\ IsErrorEnvelope(calls[s].result.envelope)
    /\ Contains(calls[s].result.envelope.content[1].text, <<"not_a_real_tool">>)

(* C2: when the HTTP response of a call has a status outside 200-299, the  *)
(* call's result is an error envelope whose text contains the decimal      *)
(* status and the status text, never a success envelope.                   *)
C2_NonSuccessStatusIsError ==
  \A s \in Done :
    (calls[s].sent > 0 /\ calls[s].resp.kind = "response"
       /\ ~(calls[s].resp.status >= 200 /\ calls[s].resp.status <= 299)) =>
      /\ calls[s].name \in ListedNames
      /\ calls[s].result.returned
      /\ IsErrorEnvelope(calls[s].result.envelope)
      /\ ~IsSuccessEnvelope(calls[s].result.envelope)
      /\ Contains(calls[s].result.envelope.content[1].text,
                  NumberToString(calls[s].resp.status))
      /\ Contains(calls[s].result.envelope.content[1].text, calls[s].resp.statusText)

C2_Witness ==
  \E s \in Done :
    /\ calls[s].name = "get_daily_note"
    /\ calls[s].resp.kind = "response" /\ calls[s].resp.status = 404
    /\ IsErrorEnvelope(calls[s].result.envelope)
    /\ Contains(calls[s].result.envelope.content[1].text, <<"4", "0", "4", " ", "Not Found">>)

(* C3: the listed tool names and the names the dispatcher routes to a      *)
(* client method are the same set: the catalog lists no name twice, a      *)
(* call of a listed name never ends in the dispatcher's default case, and  *)
(* a call of any other name always does.                                   *)
C3_CatalogMatchesDispatcher ==
  /\ Cardinality(ListedNames) = Len(ListTools)
  /\ \A s \in Slots :
       calls[s].phase # "idle" =>
         LET default == /\ calls[s].phase = "done"
                        /\ calls[s].sent = 0
                        /\ Contains(calls[s].result.envelope.content[1].text,
                                    <<"Unknown tool: ">>)
         IN  (calls[s].name \in ListedNames) <=> ~default
  /\ listed # <<>> =>
       \A i \in 1..Len(listed) :
         ~Dispatch(client, listed[i].name, <<>>).threw
         \/ ~Contains(Dispatch(client, listed[i].name, <<>>).val, <<"Unknown tool: ">>)

C3_Witness ==
  /\ listed # <<>>
  /\ {listed[i].name : i \in 1..Len(listed)} = ListedNames
  /\ \E s \in Slots : calls[s].phase = "awaiting" /\ calls[s].name = "get_metadata_keys"


\* the request of call s is a GET of the plain note listing
GetsNotes(s) ==
  /\ calls[s].req.method = "GET" /\ ~calls[s].req.hasBody
  /\ Segments(s) = <<<<"notes">>>>
  /\ ~Target(s).hasQuery

\* the request of call s is a GET of the multi-scope search for query over
\* the full scope
GetsFullSearch(s, query) ==
  /\ calls[s].req.method = "GET" /\ ~calls[s].req.hasBody
  /\ Segments(s) = <<<<"vault">>, <<"search">>>>
  /\ QueryParam(s, "query") = query
  /\ QueryParam(s, "scope") = <<"content", ",", "filename", ",", "tags">>

ListNotesCalls == {s \in Slots : calls[s].phase # "idle" /\ calls[s].name = "list_notes"}

SearchIsString(s) == "search" \in DOMAIN calls[s].args /\ calls[s].args["search"].t = "str"

RequiredOf(name) ==
  LET tool == ListTools[CHOOSE i \in 1..Len(ListTools) : ListTools[i].name = name] IN
  {tool.required[i] : i \in 1..Len(tool.required)}

\* the properties of a listed tool's schema that declare a default
DefaultsOf(name) ==
  LET tool == ListTools[CHOOSE i \in 1..Len(ListTools) : ListTools[i].name = name] IN
  {tool.properties[i] : i \in {j \in 1..Len(tool.properties) :
                                 tool.properties[j].default.t # "undefined"}}

\* the member key of the JSON body of a call's request (the last one of
\* that name); Undefined when the body has none
BodyMember(s, key) ==
  LET b == JsonParse(calls[s].req.body).val IN
  IF \E i \in 1..Len(b.v) : b.v[i][1] = <<key>>
  THEN b.v[CHOOSE i \in 1..Len(b.v) :
             b.v[i][1] = <<key>> /\ \A j \in (i + 1)..Len(b.v) : b.v[j][1] # <<key>>][2]
  ELSE Undefined

\* the tools that send their arguments in a JSON body
BodyTools == {"write_file", "create_or_update_note"}

\* a call that supplies exactly the required arguments of its tool
OnlyRequired(s) ==
  /\ calls[s].name \in ListedNames
  /\ DOMAIN calls[s].args = RequiredOf(calls[s].name)

(* C5: the request of a call that supplies only the required arguments of  *)
(* its tool carries the documented default of each omitted optional        *)
(* argument, and that value is the default the tool's input schema         *)
(* declares.                                                               *)
C5_DefaultsApplied ==
  \A s \in Sent :
    OnlyRequired(s) =>
      /\ calls[s].name = "list_directory" =>
           /\ QueryParam(s, "path") = <<".">>
           /\ QueryParam(s, "recursive") = <<"false">>
           /\ QueryParam(s, "limit") = <<"5", "0">>
           /\ QueryParam(s, "offset") = <<"0">>
      /\ calls[s].name = "write_file" => BodyMember(s, "mode") = Str(<<"overwrite">>)
      /\ calls[s].name = "create_or_update_note" => BodyMember(s, "front_matter") = Obj(<<>>)
      /\ calls[s].name = "get_daily_note" => QueryParam(s, "date") = <<"today">>
      /\ calls[s].name = "get_recent_notes" => QueryParam(s, "limit") = <<"5">>
      /\ calls[s].name = "search_vault" =>
           QueryParam(s, "scope") = <<"content", ",", "filename", ",", "tags">>
      /\ calls[s].name = "find_related_notes" => QueryParam(s, "on") = <<"tags", ",", "links">>
      /\ \A p \in DefaultsOf(calls[s].name) :
           IF calls[s].name \in BodyTools
           THEN BodyMember(s, IF p.name = "frontmatter" THEN "front_matter" ELSE p.name)
                  = p.default
           ELSE QueryParam(s, p.name) = ToStr(p.default)

C5_Witness ==
  \E s \in Sent :
    /\ calls[s].name = "list_directory"
    /\ calls[s].args = <<>>
    /\ QueryParam(s, "limit") = <<"5", "0">>
    /\ QueryParam(s, "path") = <<".">>


\* the tools that put an argument into the request path, with the path
\* segments that precede it
PathPrefix ==
  [n \in PathTools \cup {"get_metadata_values"} |->
     CASE n \in {"read_file", "delete_item"} -> <<<<"files">>>>
       [] n = "get_note" -> <<<<"notes">>>>
       [] n = "find_related_notes" -> <<<<"vault">>, <<"notes">>, <<"related">>>>
       [] OTHER -> <<<<"metadata">>, <<"values">>>>]

PathArgName(n) == IF n = "get_metadata_values" THEN "key" ELSE "path"

(* C6: for every string passed as the path of read_file, delete_item,      *)
(* get_note or find_related_notes, or as the key of get_metadata_values,   *)
(* the path of the request is the tool's fixed prefix followed by exactly  *)
(* one segment, which is the percent-encoding of the whole argument: the   *)
(* request has the same depth whatever the argument.                       *)
C6_PathArgumentIsOneSegment ==
  \A s \in Sent :
    (/\ calls[s].name \in DOMAIN PathPrefix
     /\ PathArgName(calls[s].name) \in DOMAIN calls[s].args
     /\ calls[s].args[PathArgName(calls[s].name)].t = "str") =>
      LET prefix == PathPrefix[calls[s].name]
          arg == calls[s].args[PathArgName(calls[s].name)].v
      IN  /\ Len(Segments(s)) = Len(prefix) + 1
          /\ SubSeq(Segments(s), 1, Len(prefix)) = prefix
          /\ ~HasPiece(Segments(s)[Len(prefix) + 1], "/")
          /\ PercentDecode(Segments(s)[Len(prefix) + 1]) = arg

\* a JSON value as a value: the members of an object are a set, a later
\* member replacing an earlier one of the same name
RECURSIVE Canon(_)
Canon(j) ==
  CASE j.t = "arr" -> [t |-> "arr", v |-> [i \in 1..Len(j.v) |-> Canon(j.v[i])]]
    [] j.t = "obj" ->
         [t |-> "obj",
          v |-> {<<j.v[i][1], Canon(j.v[i][2])>> :
                   i \in {k \in 1..Len(j.v) :
                            \A l \in (k + 1)..Len(j.v) : j.v[l][1] # j.v[k][1]}}]
    [] OTHER -> j

\* a JSON value with every number beyond the range of the finite doubles
\* replaced by null
RECURSIVE NullBeyondDouble(_)
NullBeyondDouble(j) ==
  CASE j.t = "lit" ->
         IF j.v[1] # 0 /\ Len(DigitsOf(Abs(j.v[1]))) - 1 + j.v[2] > 308 THEN Null ELSE j
    [] j.t = "arr" -> Arr([i \in 1..Len(j.v) |-> NullBeyondDouble(j.v[i])])
    [] j.t = "obj" -> Obj([i \in 1..Len(j.v) |-> <<j.v[i][1], NullBeyondDouble(j.v[i][2])>>])
    [] OTHER -> j

\* the calls that ended after a 2xx response whose body is a JSON text
JsonAnswered ==
  {s \in Done : /\ calls[s].sent > 0
                /\ calls[s].resp.kind = "response"
                /\ calls[s].resp.status >= 200 /\ calls[s].resp.status <= 299
                /\ calls[s].resp.body \in JsonBodies}

EnvelopeText(s) == calls[s].result.envelope.content[1].text

(* C7 as claimed: after a 2xx response whose body is the JSON value V the  *)
(* result is a success envelope whose text, parsed as JSON, equals V, for  *)
(* every JSON value V.                                                     *)
C7_RoundTripEveryValue ==
  \A s \in JsonAnswered :
    /\ IsSuccessEnvelope(calls[s].result.envelope)
    /\ JsonParse(EnvelopeText(s)).ok
    /\ Canon(JsonParse(EnvelopeText(s)).val) = Canon(JsonParse(calls[s].resp.body).val)

(* C7 as amended: after a 2xx response whose body is the JSON value V the  *)
(* result is a success envelope whose text, parsed as JSON, equals V with  *)
(* every number beyond the range of the finite doubles replaced by null;   *)
(* it equals V when V has no such number.                                  *)
C7_RoundTripFiniteNumbers ==
  \A s \in JsonAnswered :
    /\ IsSuccessEnvelope(calls[s].result.envelope)
    /\ OneTextBlock(calls[s].result.envelope)
    /\ JsonParse(EnvelopeText(s)).ok
    /\ Canon(JsonParse(EnvelopeText(s)).val)
         = Canon(NullBeyondDouble(JsonParse(calls[s].resp.body).val))

C7_Witness ==
  \E s \in JsonAnswered :
    /\ calls[s].name = "get_daily_note"
    /\ calls[s].resp.body
         = <<"{", "\"", "b", "\"", ":", "[", "1", ",", "\"", "x", " ", "y", "\"", "]", ",",
             "\"", "1", "\"", ":", "{", "}", "}">>
    /\ IsSuccessEnvelope(calls[s].result.envelope)
    /\ EnvelopeText(s) # calls[s].resp.body
    /\ Canon(JsonParse(EnvelopeText(s)).val) = Canon(JsonParse(calls[s].resp.body).val)


RECURSIVE SpacesAt(_, _)
SpacesAt(t, i) == IF i <= Len(t) /\ t[i] = " " THEN 1 + SpacesAt(t, i + 1) ELSE 0

\* the layout of a JSON text indented by two spaces per level, read from
\* piece i at nesting level depth (inStr: inside a string): a non-empty
\* array or object breaks the line after its opening bracket and after
\* every comma, every line starts with two spaces per level, a colon is
\* followed by one space, and there is no other white space
RECURSIVE IndentedFrom(_, _, _, _)
IndentedFrom(t, i, depth, inStr) ==
  IF i > Len(t) THEN depth = 0 /\ ~inStr
  ELSE LET c == t[i] IN
       IF inStr
       THEN IF c = "\\" THEN IndentedFrom(t, i + 2, depth, TRUE)
            ELSE IndentedFrom(t, i + 1, depth, c # "\"")
       ELSE CASE c = "\"" -> IndentedFrom(t, i + 1, depth, TRUE)
              [] c = "{" ->
                   i < Len(t) /\ t[i + 1] \in {"}", "\n"} /\ IndentedFrom(t, i + 1, depth + 1, FALSE)
              [] c = "[" ->
                   i < Len(t) /\ t[i + 1] \in {"]", "\n"} /\ IndentedFrom(t, i + 1, depth + 1, FALSE)
              [] c \in {"}", "]"} -> IndentedFrom(t, i + 1, depth - 1, FALSE)
              [] c = "," -> i < Len(t) /\ t[i + 1] = "\n" /\ IndentedFrom(t, i + 1, depth, FALSE)
              [] c = ":" ->
                   i + 1 < Len(t) /\ t[i + 1] = " " /\ t[i + 2] # " "
                   /\ IndentedFrom(t, i + 2, depth, FALSE)
              [] c = "\n" ->
                   LET n == SpacesAt(t, i + 1)
                       closing == i + 1 + n <= Len(t) /\ t[i + 1 + n] \in {"}", "]"}
                   IN  /\ n = 2 * (IF closing THEN depth - 1 ELSE depth)
                       /\ IndentedFrom(t, i + 1 + n, depth, FALSE)
              [] c = " " -> FALSE
              [] OTHER -> IndentedFrom(t, i + 1, depth, FALSE)

TwoSpaceIndented(t) == IndentedFrom(t, 1, 0, FALSE)

\* a call failed: the tool is unknown, the handler threw before any
\* request, no response was received, the status is not 2xx, or the body
\* is not a JSON text
Failed(s) ==
  \/ calls[s].name \notin ListedNames
  \/ calls[s].sent = 0
  \/ calls[s].resp.kind = "failure"
  \/ ~(calls[s].resp.status >= 200 /\ calls[s].resp.status <= 299)
  \/ calls[s].resp.body \in BadBodies

(* C8: every result of a call is an envelope with exactly one content      *)
(* block, of type text.  It is flagged isError = true exactly when the     *)
(* call failed, and its text is then "Error: " followed by the failure     *)
(* message; otherwise the envelope has no flag and its text is the         *)
(* serialization of the response value, indented by two spaces per level.  *)
C8_EnvelopeShape ==
  \A s \in Done :
    LET e == calls[s].result.envelope IN
    /\ calls[s].result.returned
    /\ OneTextBlock(e)
    /\ DOMAIN e \subseteq {"content", "isError"}
    /\ IsErrorEnvelope(e) <=> Failed(s)
    /\ IsSuccessEnvelope(e) <=> ~Failed(s)
    /\ Failed(s) =>
         /\ e.content[1].text[1] = "Error: "
         /\ calls[s].name \notin ListedNames =>
              Tail(e.content[1].text) = <<"Unknown tool: ", calls[s].name>>
         /\ (calls[s].sent > 0 /\ calls[s].resp.kind = "failure") =>
              Tail(e.content[1].text) = calls[s].resp.message
         /\ (calls[s].sent > 0 /\ calls[s].resp.kind = "response"
               /\ ~(calls[s].resp.status >= 200 /\ calls[s].resp.status <= 299)) =>
              Tail(e.content[1].text)
                = <<"API request failed: ">> \o NumberToString(calls[s].resp.status)
                    \o <<" ">> \o calls[s].resp.statusText
    /\ ~Failed(s) =>
         /\ TwoSpaceIndented(e.content[1].text)
         /\ e.content[1].text = JSONStringify(JSONParse(calls[s].resp.body).val, 2)

C8_Witness ==
  \E s \in Done :
    /\ ~Failed(s)
    /\ calls[s].resp.body
         = <<"[", "null", ",", " ", "true", ",", "-", "5", ",", "[", "]", "]">>
    /\ EnvelopeText(s)
         = <<"[", "\n", " ", " ", "null", ",", "\n", " ", " ", "true", ",", "\n",
             " ", " ", "-", "5", ",", "\n", " ", " ", "[", "]", "\n", "]">>

(* C9: no failure of a call leaves the call handler or ends the process:   *)
(* a step of a call is taken by a running process and leaves it running,   *)
(* and every handler that ends returns an envelope, also after an unknown  *)
(* tool, a transport error, a non-2xx status, a malformed body or an       *)
(* exception inside the handler.  This holds of every call, whatever the   *)
(* calls before it were, so the call after a failed one is answered too.   *)
C9_FailuresStayInHandler ==
  [][\A s \in Slots :
       /\ calls'[s] # calls[s] =>
            (proc.state = "running" /\ proc' = proc)
       /\ (calls[s].phase # "done" /\ calls'[s].phase = "done") =>
            /\ calls'[s].result.returned
            /\ OneTextBlock(calls'[s].result.envelope)]_vars

C9_Witness ==
  \E s \in Done :
    /\ calls[s].name = "list_directory"
    /\ calls[s].sent = 0
    /\ calls[s].result.returned
    /\ IsErrorEnvelope(calls[s].result.envelope)
    /\ proc.state = "running"

(* C10: a 2xx response whose body is not a JSON text, the empty body       *)
(* included, yields an error envelope, never a success envelope.           *)
C10_MalformedBodyIsError ==
  \A s \in Done :
    (/\ calls[s].sent > 0
     /\ calls[s].resp.kind = "response"
     /\ calls[s].resp.status >= 200 /\ calls[s].resp.status <= 299
     /\ calls[s].resp.body \in BadBodies) =>
      /\ calls[s].result.returned
      /\ IsErrorEnvelope(calls[s].result.envelope)
      /\ ~IsSuccessEnvelope(calls[s].result.envelope)
      /\ EnvelopeText(s)[1] = "Error: "
      /\ Len(EnvelopeText(s)) > 1

C10_Witness ==
  \E s \in Done :
    /\ calls[s].name = "delete_item"
    /\ calls[s].resp.kind = "response"
    /\ calls[s].resp.status = 204
    /\ calls[s].resp.body = <<>>
    /\ IsErrorEnvelope(calls[s].result.envelope)

(* C11: a call of a catalog tool whose fetch is rejected (no response is   *)
(* received) returns an error envelope whose single text block is          *)
(* "Error: " followed by the message of the rejection.                     *)
C11_TransportFailureIsErrorEnvelope ==
  \A s \in Done :
    (/\ calls[s].name \in ListedNames
     /\ calls[s].sent > 0
     /\ calls[s].resp.kind = "failure") =>
      /\ calls[s].result.returned
      /\ IsErrorEnvelope(calls[s].result.envelope)
      /\ OneTextBlock(calls[s].result.envelope)
      /\ EnvelopeText(s) = <<"Error: ">> \o calls[s].resp.message

C11_Witness ==
  \E s \in Done :
    /\ calls[s].name = "search_vault"
    /\ calls[s].sent = 1
    /\ calls[s].resp = Failure(<<"fetch failed">>)
    /\ EnvelopeText(s) = <<"Error: ", "fetch failed">>

\* the values of the header name in the request of a call
HeaderValues(s, name) ==
  LET h == calls[s].req.headers IN
  {h[i][2] : i \in {j \in 1..Len(h) : h[j][1] = name}}

\* the number of headers called name in the request of a call
HeaderCount(s, name) ==
  LET h == calls[s].req.headers IN
  Cardinality({j \in 1..Len(h) : h[j][1] = name})

\* OBSIDIAN_API_KEY is set to a token
TokenConfigured == env.OBSIDIAN_API_KEY.t = "str" /\ env.OBSIDIAN_API_KEY.v # <<>>

(* C12: every request a call sends has exactly one Content-Type and one    *)
(* Accept header, both application/json; it has an Authorization header    *)
(* exactly when OBSIDIAN_API_KEY is set to a token (a text that is not     *)
(* empty), and that header is "Bearer " followed by the token.             *)
C12_RequestHeaders ==
  \A s \in Sent :
    /\ HeaderCount(s, "Content-Type") = 1
    /\ HeaderValues(s, "Content-Type") = {<<"application/json">>}
    /\ HeaderCount(s, "Accept") = 1
    /\ HeaderValues(s, "Accept") = {<<"application/json">>}
    /\ TokenConfigured <=> HeaderCount(s, "Authorization") = 1
    /\ ~TokenConfigured <=> HeaderCount(s, "Authorization") = 0
    /\ TokenConfigured =>
         HeaderValues(s, "Authorization") = {<<"Bearer ">> \o env.OBSIDIAN_API_KEY.v}

C12_Witness ==
  \E s \in Sent :
    /\ calls[s].name = "write_file"
    /\ calls[s].req.method = "POST"
    /\ env.OBSIDIAN_API_KEY = Str(<<"secret">>)
    /\ HeaderValues(s, "Authorization") = {<<"Bearer ", "secret">>}
    /\ HeaderValues(s, "Content-Type") = {<<"application/json">>}

\* the cases of the switch of the previous call handler
PreviousToolNames ==
  {"list_files", "get_file", "create_file", "update_file", "delete_file", "list_notes",
   "get_note", "create_note", "update_note", "delete_note", "search_notes",
   "get_metadata_keys", "get_metadata_values"}

\* the call was answered by the default case of the switch
AnsweredUnknownTool(s) ==
  /\ calls[s].sent = 0
  /\ calls[s].result.returned
  /\ EnvelopeText(s) = <<"Error: ", "Unknown tool: ", calls[s].name>>

(* C13: a call of a tool name the previous call handler had a case for is  *)
(* never answered "Unknown tool" by the current call handler.              *)
C13_PreviousToolsStillDispatched ==
  \A s \in Done : calls[s].name \in PreviousToolNames => ~AnsweredUnknownTool(s)

\* the properties a listed tool's input schema declares
PropertiesOf(name) ==
  LET tool == ListTools[CHOOSE i \in 1..Len(ListTools) : ListTools[i].name = name] IN
  {tool.properties[i] : i \in 1..Len(tool.properties)}

\* the texts of a sequence of names, as string values
StrsOf(names) == {Str(<<names[i]>>) : i \in 1..Len(names)}

\* the values the input schema of write_file declares for mode
WriteModes == UNION {StrsOf(p.enum) : p \in {q \in PropertiesOf("write_file") : q.name = "mode"}}

\* the call sent POST /files/write
PostsFilesWrite(s) ==
  /\ calls[s].req.method = "POST"
  /\ Segments(s) = <<<<"files">>, <<"write">>>>
  /\ calls[s].req.hasBody

(* C14: the body of every POST /files/write request of write_file has a    *)
(* mode member that is overwrite, append or prepend, whatever arguments    *)
(* the call has.                                                           *)
C14_WriteModeIsDeclared ==
  \A s \in Sent :
    (calls[s].name = "write_file" /\ PostsFilesWrite(s)) => BodyMember(s, "mode") \in WriteModes

\* the JSON Schema type of a value
SchemaType(x) ==
  CASE x.t = "str" -> "string"
    [] x.t \in {"num", "inf"} -> "number"
    [] x.t = "bool" -> "boolean"
    [] x.t = "arr" -> "array"
    [] x.t = "obj" -> "object"
    [] OTHER -> x.t

\* the value satisfies the declaration p of a property
SatisfiesProp(x, p) ==
  /\ SchemaType(x) = p.type
  /\ p.enum # <<>> => x \in StrsOf(p.enum)
  /\ (p.items # <<>> /\ x.t = "arr") => \A i \in 1..Len(x.v) : x.v[i] \in StrsOf(p.items)

\* the arguments are valid against the input schema the tool publishes:
\* the required ones are present, and each argument the schema declares
\* has the declared type and enum
ValidArguments(name, args) ==
  /\ RequiredOf(name) \subseteq DOMAIN args
  /\ \A p \in PropertiesOf(name) : p.name \in DOMAIN args => SatisfiesProp(args[p.name], p)

(* C15: a call of a catalog tool whose arguments are invalid against the   *)
(* tool's input schema (a required argument is missing, a value has the    *)
(* wrong type or is outside the enum) ends with an error envelope.         *)
C15_InvalidArgumentsAreErrors ==
  \A s \in Done :
    (calls[s].name \in ListedNames /\ ~ValidArguments(calls[s].name, calls[s].args)) =>
      /\ calls[s].result.returned
      /\ IsErrorEnvelope(calls[s].result.envelope)

\* OBSIDIAN_API_URL is set to a text that is not a URL
UrlNotValid == env.OBSIDIAN_API_URL.t = "str" /\ ~IsUrl(env.OBSIDIAN_API_URL.v)

\* no list-tools or call-tool request has been served
NothingServed == listed = <<>> /\ \A s \in Slots : calls[s] = IdleCall

(* C16, as stated: whenever OBSIDIAN_API_URL is not a valid URL, the       *)
(* process never connects the transport or serves a request, and when it   *)
(* has exited its code is not 0.                                           *)
C16_InvalidUrlExitsNonZero ==
  UrlNotValid =>
    /\ proc.state \in {"start", "exited"}
    /\ proc.state = "exited" => proc.code # 0
    /\ NothingServed

(* C16, amended: without a version or help flag, when OBSIDIAN_API_URL is  *)
(* a non-empty text that is not a valid URL, the first step of the process *)
(* ends it with code 1 and a "Fatal error:" line on the error stream: no   *)
(* client is constructed, the transport is never connected and no request  *)
(* is served.                                                              *)
C16_InvalidUrlInServerModeExitsNonZero ==
  (ServerMode /\ UrlNotValid /\ env.OBSIDIAN_API_URL.v # <<>>) =>
    /\ proc.state \in {"start", "exited"}
    /\ proc.state = "exited" =>
         /\ proc.code = 1
         /\ stderr = <<FatalLine(<<"Invalid url">>)>>
    /\ stdout = <<>>
    /\ config = NoConfig /\ client = NoClient
    /\ NothingServed

C16_Witness ==
  /\ ServerMode
  /\ env.OBSIDIAN_API_URL = Str(<<"not a url">>)
  /\ proc = Exited(1)
  /\ stderr = <<<<"Fatal error:", " ", "Invalid url">>>>

\* --version or -v is among the arguments
VersionFlag == Includes(argv, "--version") \/ Includes(argv, "-v")

(* C17: with --version or -v among the arguments, for every environment    *)
(* (an invalid OBSIDIAN_API_URL included) the one step of the process      *)
(* writes exactly one line to standard output, the version member of       *)
(* package.json, writes nothing to the error stream and exits with code 0; *)
(* the configuration is not read, no client or server is constructed, the  *)
(* transport is not connected and no request is sent.                      *)
C17_VersionFlagPrintsVersion ==
  VersionFlag =>
    /\ proc.state \in {"start", "exited"}
    /\ proc.state = "start" => stdout = <<>>
    /\ proc.state = "exited" =>
         /\ proc.code = 0
         /\ \A v \in PackageVersions : pkg = PackageJson(v) => stdout = <<v>>
    /\ stderr = <<>>
    /\ config = NoConfig /\ client = NoClient
    /\ NothingServed
    /\ \A s \in Slots : calls[s].sent = 0

C17_Witness ==
  /\ argv = <<"-h", "--version">>
  /\ env.OBSIDIAN_API_URL = Str(<<"not a url">>)
  /\ pkg = PackageJson(<<"1", ".", "0", ".", "3">>)
  /\ proc = Exited(0)
  /\ stdout = <<<<"1", ".", "0", ".", "3">>>>

\* the lines the process writes to the error stream
IsFatalLine(line) == Len(line) >= 2 /\ SubSeq(line, 1, 2) = <<"Fatal error:", " ">>

(* C18: without a version or help flag the process writes nothing to       *)
(* standard output, in any state: the startup confirmation and the fatal   *)
(* error line are written to the error stream, and handling requests       *)
(* writes to neither stream.                                               *)
C18_ServerModeNeverWritesStdout ==
  ServerMode =>
    /\ stdout = <<>>
    /\ proc.state \in {"start", "connecting"} => stderr = <<>>
    /\ proc.state = "running" => stderr = <<StartupLine>>
    /\ (proc.state = "exited" /\ proc.code # 0) =>
         Len(stderr) = 1 /\ IsFatalLine(stderr[1])

C18_Witness ==
  /\ ServerMode
  /\ proc.state = "running"
  /\ stderr = <<<<"Obsidian MCP Server running on stdio">>>>
  /\ stdout = <<>>
  /\ \E s \in Done : IsErrorEnvelope(calls[s].result.envelope)

\* no version or help flag, and a configuration ConfigSchema accepts
ValidLaunch == ServerMode /\ ~ReadConfig(env).threw

\* the startup confirmation is on the error stream
ConfirmationWritten == \E i \in 1..Len(stderr) : stderr[i] = StartupLine

(* C19, as stated: started without flags and with a valid configuration,   *)
(* the process does not end before it has written the startup              *)
(* confirmation, and when it has ended its exit code is 0.                 *)
C19_ValidStartEndsOnlyBySignal ==
  (ValidLaunch /\ proc.state = "exited") => (ConfirmationWritten /\ proc.code = 0)

(* C19, amended: started without flags and with a valid configuration,     *)
(* the process reaches the await of connect; if connect resolves, it       *)
(* writes the startup confirmation to the error stream and from then on    *)
(* ends only by SIGINT or SIGTERM, with exit code 0; if connect rejects,   *)
(* it ends with code 1 and a fatal error line, the confirmation unwritten. *)
(* Eventually the process has written the confirmation or has ended.       *)
C19_StartupThenRunsUntilSignal ==
  /\ [](ValidLaunch =>
          /\ proc.state # "start" => (config \in Configs /\ client = NewClient(config))
          /\ proc.state = "running" => stderr = <<StartupLine>>
          /\ proc.state = "exited" =>
               \/ proc.code = 0 /\ stderr \in {<<>>, <<StartupLine>>}
               \/ /\ proc.code = 1
                  /\ \E message \in ConnectFailures : stderr = <<FatalLine(message)>>)
  /\ [][ValidLaunch =>
          /\ (proc.state = "connecting" /\ proc'.state = "running") =>
               stderr' = Append(stderr, StartupLine)
          /\ (proc.state = "running" /\ proc' # proc) =>
               /\ proc' = Exited(0)
               /\ UNCHANGED <<stdout, stderr, calls, listed>>]_vars
  /\ (ValidLaunch /\ proc.state = "start") ~> (ConfirmationWritten \/ proc.state = "exited")

C19_Witness ==
  /\ ValidLaunch
  /\ proc = Exited(0)
  /\ stderr = <<StartupLine>>
  /\ \E s \in Slots : calls[s].phase = "awaiting"

\* the names of the tools array, in the order of the source
CatalogOrder ==
  <<"list_directory", "read_file", "write_file", "delete_item", "create_or_update_note",
    "get_daily_note", "get_recent_notes", "search_vault", "find_related_notes", "get_note",
    "list_notes", "get_metadata_keys", "get_metadata_values">>

(* C20: every list-tools response of a process is the same sequence of     *)
(* tool definitions, in the order of the source: the first response is     *)
(* that sequence and no later step (a list-tools request, or a call that   *)
(* succeeds or fails) changes what list-tools returns.                     *)
C20_ListToolsIsConstant ==
  /\ [](listed # <<>> =>
          /\ listed = ListTools
          /\ [i \in 1..Len(listed) |-> listed[i].name] = CatalogOrder)
  /\ [][listed' # listed => (listed = <<>> /\ listed' = ListTools)]_vars

C20_Witness ==
  /\ listed = ListTools
  /\ Len(listed) = 13
  /\ \E s \in Done :
       /\ calls[s].name = "not_a_real_tool"
       /\ IsErrorEnvelope(calls[s].result.envelope)

(* C21: no step of a call or of list-tools writes the client: once it is   *)
(* constructed, its base URL and stored headers are those the constructor  *)
(* set from the configuration, in every state and across every step, with  *)
(* calls in flight at the same time.                                       *)
C21_ClientIsNeverWritten ==
  /\ [](client # NoClient =>
          /\ client = NewClient(config)
          /\ client.baseUrl = config.baseUrl \o <<"/", "api">>
          /\ \A s \in Sent : calls[s].req.headers = client.headers)
  /\ [][proc.state # "start" => UNCHANGED <<client, config>>]_vars

C21_Witness ==
  /\ client = NewClient(config)
  /\ config.apiKey = Str(<<"secret">>)
  /\ calls[1].phase = "done" /\ calls[1].name = "write_file" /\ calls[1].sent = 1
  /\ calls[2].phase = "awaiting" /\ calls[2].name = "read_file"

\* the calls suspended in the await of fetch
Awaiting == {s \in Slots : calls[s].phase = "awaiting"}

(* C22: with several calls in flight, every call that awaits its response  *)
(* can receive any response at once, whatever the other calls are waiting  *)
(* for; a step of one call changes no other call; and the envelope a call  *)
(* returns is the one built from the response that call received.          *)
C22_CallsDoNotBlockEachOther ==
  /\ [](proc.state = "running" =>
          \A s \in Awaiting : \A resp \in ConcResponses : ENABLED FetchSettles(s, resp))
  /\ [](\A s \in Done :
          calls[s].sent > 0 =>
            calls[s].result = HandlerReturn(RequestSettled(calls[s].resp)))
  /\ [][\A s \in Slots :
          calls'[s] # calls[s] => \A t \in Slots \ {s} : calls'[t] = calls[t]]_vars

C22_Witness ==
  /\ calls[1].phase = "awaiting" /\ calls[1].name = "read_file"
  /\ calls[2].phase = "done" /\ calls[2].name = "list_notes"
  /\ calls[2].resp = Response(200, <<"OK">>, <<"true">>)
  /\ IsSuccessEnvelope(calls[2].result.envelope)
  /\ EnvelopeText(2) = <<"true">>

\* the calls whose handler has been entered
Entered == {s \in Slots : calls[s].phase # "idle"}

(* C23, as stated: a call sends at most one request: exactly one when the  *)
(* tool is in the catalog, none when it is not.                            *)
C23_ExactlyOneRequestPerCatalogCall ==
  \A s \in Entered :
    calls[s].sent = IF calls[s].name \in ListedNames THEN 1 ELSE 0

\* the text of a value has an unpaired surrogate
HasLoneSurrogate(x) == \E i \in 1..Len(ToStr(x)) : ToStr(x)[i] = LoneSurrogate

\* building the request of a catalog tool throws: encodeURIComponent of an
\* unpaired surrogate, toString of null, join of a value that is no array
ThrowsBeforeRequest(name, args) ==
  CASE name \in {"read_file", "delete_item", "get_note"} ->
         HasLoneSurrogate(Arg(args, "path"))
    [] name = "get_metadata_values" -> HasLoneSurrogate(Arg(args, "key"))
    [] name = "find_related_notes" ->
         \/ HasLoneSurrogate(Arg(args, "path"))
         \/ Arg(args, "on").t \notin {"undefined", "arr"}
    [] name = "search_vault" -> Arg(args, "scope").t \notin {"undefined", "arr"}
    [] name = "list_directory" ->
         \E k \in {"recursive", "limit", "offset"} : Arg(args, k).t = "null"
    [] name = "get_recent_notes" -> Arg(args, "limit").t = "null"
    [] OTHER -> FALSE

(* C23, amended: a call sends at most one request: none for a name that is *)
(* not in the catalog, none for a catalog tool when building the request   *)
(* throws (the call then ends with an error envelope), exactly one         *)
(* otherwise; the count of a call never grows after its first request, so  *)
(* a transport failure, a non-2xx status or a malformed body is not        *)
(* followed by a second attempt.                                           *)
C23_AtMostOneRequestPerCall ==
  /\ [](\A s \in Entered :
          /\ calls[s].sent \in {0, 1}
          /\ calls[s].name \notin ListedNames => calls[s].sent = 0
          /\ calls[s].name \in ListedNames =>
               calls[s].sent = IF ThrowsBeforeRequest(calls[s].name, calls[s].args)
                               THEN 0 ELSE 1
          /\ calls[s].sent = 0 =>
               (calls[s].phase = "done" /\ IsErrorEnvelope(calls[s].result.envelope))
          /\ (calls[s].phase = "done" /\ calls[s].sent = 1
              /\ IsErrorEnvelope(calls[s].result.envelope)) => Failed(s))
  /\ [][\A s \in Slots :
          (calls[s].phase = "awaiting" /\ calls'[s] # calls[s]) =>
            (calls'[s].phase = "done" /\ calls'[s].sent = calls[s].sent
             /\ calls'[s].req = calls[s].req)]_vars

C23_Witness ==
  \E s \in Done :
    /\ calls[s].name = "get_daily_note"
    /\ calls[s].sent = 1
    /\ calls[s].resp = Failure(<<"fetch failed">>)
    /\ IsErrorEnvelope(calls[s].result.envelope)

\* the calls of search_vault that sent a request
SearchVaultCalls == {s \in Sent : calls[s].name = "search_vault"}

\* the names of the query parameters of a call's request, in order
QueryNames(s) ==
  LET ps == ParseQuery(Target(s).query) IN [i \in 1..Len(ps) |-> ps[i][1]]

\* the scope elements joined by commas; the three default elements when the
\* argument is omitted
ScopeJoined(args) ==
  IF "scope" \in DOMAIN args
  THEN JoinTexts([i \in 1..Len(args["scope"].v) |-> ToStr(args["scope"].v[i])], <<",">>)
  ELSE <<"content", ",", "filename", ",", "tags">>

ToUSVString(text) ==
  Flatten([i \in 1..Len(text) |->
             IF text[i] = LoneSurrogate
             THEN <<"%", "E", "F", "%", "B", "F", "%", "B", "D">> ELSE <<text[i]>>])

BodyKeys(s) ==
  LET b == JsonParse(calls[s].req.body).val IN [i \in 1..Len(b.v) |-> b.v[i][1]]

\* the calls of create_or_update_note that supply the required path and
\* content and sent a request
UpsertCalls ==
  {s \in Sent : /\ calls[s].name = "create_or_update_note"
                /\ {"path", "content"} \subseteq DOMAIN calls[s].args}

(* C25: a create_or_update_note call that supplies path and content sends  *)
(* POST /notes/upsert without a query string; the members of its JSON body *)
(* are exactly path, content and front_matter, holding the path and        *)
(* content arguments and the frontmatter argument, or the empty mapping    *)
(* when frontmatter is omitted.                                            *)
C25_UpsertBody ==
  \A s \in UpsertCalls :
    /\ calls[s].req.method = "POST"
    /\ calls[s].req.hasBody
    /\ Segments(s) = <<<<"notes">>, <<"upsert">>>>
    /\ ~Target(s).hasQuery
    /\ BodyKeys(s) = <<<<"path">>, <<"content">>, <<"front_matter">>>>
    /\ BodyMember(s, "path") = calls[s].args["path"]
    /\ BodyMember(s, "content") = calls[s].args["content"]
    /\ BodyMember(s, "front_matter") =
         IF "frontmatter" \in DOMAIN calls[s].args
         THEN calls[s].args["frontmatter"] ELSE Obj(<<>>)

C25_Witness ==
  /\ \E s \in UpsertCalls :
       /\ Arg(calls[s].args, "frontmatter") = SomeFrontmatter
       /\ BodyMember(s, "front_matter") = SomeFrontmatter
       /\ BodyMember(s, "content") = SomeText
       /\ calls[s].req.method = "POST"

\* two calls of the same tool with the same arguments
SameCall(s, t) ==
  /\ s \in Entered /\ t \in Entered
  /\ calls[s].name = calls[t].name
  /\ calls[s].args = calls[t].args

(* C26: two calls with the same tool name and arguments send the same      *)
(* request (method, URL with path and query, body, headers) or both send   *)
(* none, whatever other calls are in flight or were answered before; the   *)
(* request is the one a fresh client of the configuration builds for the   *)
(* name and arguments alone, and it never changes while the call waits;    *)
(* two such calls that received the same response hold the same envelope,  *)
(* which depends on the response alone.                                    *)
C26_SameCallSameRequestSameEnvelope ==
  /\ [](\A s \in Slots : \A t \in Slots :
          SameCall(s, t) =>
            /\ calls[s].sent = calls[t].sent
            /\ calls[s].req = calls[t].req
            /\ (s \in Done /\ t \in Done /\ calls[s].resp = calls[t].resp) =>
                 calls[s].result = calls[t].result)
  /\ [](\A s \in Entered :
          LET out == Dispatch(NewClient(config), calls[s].name, calls[s].args) IN
          /\ calls[s].sent = (IF out.threw THEN 0 ELSE 1)
          /\ calls[s].sent = 1 => calls[s].req = out.val
          /\ s \in Done =>
               calls[s].result =
                 HandlerReturn(IF out.threw THEN out ELSE RequestSettled(calls[s].resp)))
  /\ [][\A s \in Slots :
          calls[s].phase = "awaiting" =>
            calls'[s].req = calls[s].req \/ calls'[s].phase = "idle"]_vars

C26_Witness ==
  /\ SameCall(1, 2)
  /\ calls[1].name = "read_file"
  /\ calls[1].phase = "done" /\ calls[2].phase = "done"
  /\ calls[1].resp = Response(404, <<"Not Found">>, <<>>)
  /\ calls[2].resp = calls[1].resp
  /\ calls[1].req = calls[2].req
  /\ HeaderCount(1, "Authorization") = 1
  /\ IsErrorEnvelope(calls[2].result.envelope)

(* C27: the request of a list_notes call goes to /notes without a query    *)
(* string or to /vault/search; it never has a path_filter parameter, and   *)
(* at /vault/search its scope is content,filename,tags, also when the call *)
(* passes path_filter or scope arguments of its own.                       *)
C27_ListNotesIgnoresFilterAndScope ==
  \A s \in ListNotesCalls :
    /\ calls[s].sent = 1
    /\ calls[s].req.method = "GET"
    /\ QueryParam(s, "path_filter") = <<"(none)">>
    /\ \/ Segments(s) = <<<<"notes">>>> /\ ~Target(s).hasQuery
       \/ /\ Segments(s) = <<<<"vault">>, <<"search">>>>
          /\ QueryNames(s) = <<<<"query">>, <<"scope">>>>
          /\ QueryParam(s, "scope") = <<"content", ",", "filename", ",", "tags">>

C27_Witness ==
  \E s \in ListNotesCalls :
    /\ Arg(calls[s].args, "search") = Str(<<"foo">>)
    /\ Arg(calls[s].args, "path_filter") = Str(<<"docs">>)
    /\ Arg(calls[s].args, "scope") = Arr(<<Str(<<"tags">>)>>)
    /\ Segments(s) = <<<<"vault">>, <<"search">>>>
    /\ QueryParam(s, "query") = <<"foo">>
    /\ QueryParam(s, "scope") = <<"content", ",", "filename", ",", "tags">>

-----------------------------------------------------------------------------
(* The note operations of the previous tool set: the client methods are    *)
(* still defined, the switch cases are those of the previous handler       *)

\* createNote: frontmatter joins the body when it is truthy
createNote(c, path, content, frontmatter) ==
  LET body == <<<<<<"path">>, path>>, <<<<"content">>, content>>>>
                \o (IF Truthy(frontmatter)
                    THEN <<<<<<"frontmatter">>, frontmatter>>>> ELSE <<>>)
  IN  Request(c, <<"/", "notes">>,
              [method |-> "POST", body |-> JSONStringify(Obj(body), 0)])

\* variant of updateNote: a text that is not given is sent as the empty text
updateNoteEmptyContent(c, path, content, frontmatter) ==
  LET body == <<<<<<"content">>, Default(content, Str(<<>>))>>>>
                \o (IF frontmatter.t # "undefined"
                    THEN <<<<<<"frontmatter">>, frontmatter>>>> ELSE <<>>)
      enc == EncodeURIComponent(path)
  IN  IF enc.threw THEN enc
      ELSE Request(c, <<"/", "notes", "/">> \o enc.val,
                   [method |-> "PATCH", body |-> JSONStringify(Obj(body), 0)])

\* updateNote: content and frontmatter join the body unless undefined
updateNote(c, path, content, frontmatter) ==
  LET body == (IF content.t # "undefined"
               THEN <<<<<<"content">>, content>>>> ELSE <<>>)
                \o (IF frontmatter.t # "undefined"
                    THEN <<<<<<"frontmatter">>, frontmatter>>>> ELSE <<>>)
      enc == EncodeURIComponent(path)
  IN  IF enc.threw THEN enc
      ELSE Request(c, <<"/", "notes", "/">> \o enc.val,
                   [method |-> "PATCH", body |-> JSONStringify(Obj(body), 0)])

\* the cases create_note and update_note of the previous switch, and its
\* default case
PreviousDispatch(c, name, args) ==
  CASE name = "create_note" ->
         createNote(c, Arg(args, "path"), Arg(args, "content"), Arg(args, "frontmatter"))
    [] name = "update_note" ->
         updateNote(c, Arg(args, "path"), Arg(args, "content"), Arg(args, "frontmatter"))
    [] OTHER -> UnknownTool(name)

PreviousInvocations ==
  {Inv("create_note", ("path" :> Str(<<"a", ".", "md">>)) @@ ("content" :> SomeText) @@ a) :
     a \in {<<>>, "frontmatter" :> SomeFrontmatter, "frontmatter" :> Obj(<<>>),
            "frontmatter" :> Null}}
  \cup {Inv("update_note", ("path" :> Str(<<"a", " ", "b">>)) @@ a) :
          a \in {<<>>,
                 "content" :> SomeText,
                 "content" :> Str(<<>>),
                 "content" :> Null,
                 "frontmatter" :> SomeFrontmatter,
                 "frontmatter" :> Null,
                 ("content" :> SomeText) @@ ("frontmatter" :> SomeFrontmatter)}}
  \cup {Inv("update_note", "path" :> Str(<<LoneSurrogate>>)),
        Inv("not_a_real_tool", <<>>)}

\* the previous call-tool handler is entered for an invocation and runs to
\* its first await, or to its end if the switch throws before any fetch
PreviousCallToolRequest(s, inv) ==
  /\ proc.state = "running"
  /\ calls[s].phase = "idle"
  /\ LET out == PreviousDispatch(client, inv.name, inv.args) IN
     calls' = [calls EXCEPT ![s] =
                 IF out.threw
                 THEN [phase |-> "done", name |-> inv.name, args |-> inv.args, sent |-> 0,
                       req |-> NoRequest, resp |-> Failure(<<>>),
                       result |-> HandlerReturn(out)]
                 ELSE [phase |-> "awaiting", name |-> inv.name, args |-> inv.args, sent |-> 1,
                       req |-> out.val, resp |-> Failure(<<>>), result |-> NoResult]]
  /\ UNCHANGED <<launch, config, client, server, proc, stdout, stderr, listed>>

PreviousNext ==
  \/ Startup
  \/ ConnectResolves
  \/ \E message \in ConnectFailures : ConnectRejects(message)
  \/ \E inv \in PreviousInvocations : PreviousCallToolRequest(1, inv)
  \/ \E resp \in ConcResponses : FetchSettles(1, resp)
  \/ Respond(1)
  \/ Signal

PreviousSpec == Init /\ [][PreviousNext]_vars

\* the calls of the previous note operations that sent a request
CreateNoteCalls == {s \in Sent : calls[s].name = "create_note"}
UpdateNoteCalls == {s \in Sent : calls[s].name = "update_note"}

\* the body of a call's request has a member key
BodyHas(s, key) == \E i \in 1..Len(BodyKeys(s)) : BodyKeys(s)[i] = <<key>>

\* a member of the body of a call's request is null
BodyHasNull(s) ==
  \E i \in 1..Len(BodyKeys(s)) : BodyMember(s, BodyKeys(s)[i][1]) = Null

WritingMethod ==
  ("write_file" :> "POST") @@ ("create_or_update_note" :> "POST") @@ ("delete_item" :> "DELETE")

\* the tools that only read the vault
ReadingTools == ListedNames \ DOMAIN WritingMethod

(* C29: every request of a call to list_directory, read_file,              *)
(* get_daily_note, get_recent_notes, search_vault, find_related_notes,     *)
(* get_note, list_notes, get_metadata_keys or get_metadata_values is a GET *)
(* without a body, whatever the arguments; a request with another method   *)
(* comes only from write_file or create_or_update_note, as a POST, or from *)
(* delete_item, as a DELETE; a call of any other name sends nothing.       *)
C29_OnlyThreeToolsWrite ==
  /\ ReadingTools =
       {"list_directory", "read_file", "get_daily_note", "get_recent_notes", "search_vault",
        "find_related_notes", "get_note", "list_notes", "get_metadata_keys",
        "get_metadata_values"}
  /\ \A s \in Entered :
       /\ calls[s].name \notin ListedNames => calls[s].sent = 0
       /\ (calls[s].sent > 0 /\ calls[s].name \in ReadingTools) =>
            /\ calls[s].req.method = "GET"
            /\ ~calls[s].req.hasBody /\ calls[s].req.body = <<>>
       /\ (calls[s].sent > 0 /\ calls[s].name \in DOMAIN WritingMethod) =>
            calls[s].req.method = WritingMethod[calls[s].name]

C29_Witness ==
  \E s \in Sent :
    /\ calls[s].name = "list_directory"
    /\ Arg(calls[s].args, "limit") = Str(<<"many">>)
    /\ calls[s].req.method = "GET"
    /\ QueryParam(s, "limit") = <<"many">>

\* the place of a call in the calls made on the protocol server; 0 when it
\* was not made
PlaceOf(call) ==
  IF \E i \in 1..Len(server) : server[i] = call
  THEN CHOOSE i \in 1..Len(server) : server[i] = call
  ELSE 0

\* a handler is registered for the schema
Registered(schema) == PlaceOf(SetRequestHandler(schema)) > 0

\* the process exited after a failure
ExitedWith1 == proc.state = "exited" /\ proc.code = 1

(* C30: the list-tools and the call-tool handler are registered before     *)
(* connect is called on the transport, so both are registered in every     *)
(* state in which the transport is connected and whenever a request is     *)
(* served; the startup confirmation is written in the step in which        *)
(* connect resolves and in no other; when connect rejects, the process     *)
(* writes a fatal error line, never the confirmation, and exits with       *)
(* code 1.                                                                 *)
C30_HandlersBeforeConnectThenConfirmation ==
  /\ [](PlaceOf(Connect) > 0 =>
          /\ Registered(ListToolsRequestSchema)
          /\ Registered(CallToolRequestSchema)
          /\ PlaceOf(SetRequestHandler(ListToolsRequestSchema)) < PlaceOf(Connect)
          /\ PlaceOf(SetRequestHandler(CallToolRequestSchema)) < PlaceOf(Connect))
  /\ [](proc.state \in {"connecting", "running"} <=>
          (PlaceOf(Connect) > 0 /\ proc.state # "exited"))
  /\ [](~NothingServed => (Registered(ListToolsRequestSchema)
                           /\ Registered(CallToolRequestSchema)
                           /\ ConfirmationWritten))
  /\ [](proc.state = "connecting" => ~ConfirmationWritten)
  /\ [](proc.state = "running" => ConfirmationWritten)
  /\ [](ExitedWith1 => ~ConfirmationWritten)
  /\ [][(ConfirmationWritten' /\ ~ConfirmationWritten) =>
          (proc.state = "connecting" /\ proc'.state = "running")]_vars
  /\ [][(proc.state = "connecting" /\ proc'.state = "exited" /\ stderr' # stderr) =>
          /\ proc'.code = 1
          /\ ~ConfirmationWritten'
          /\ IsFatalLine(stderr'[Len(stderr')])
          /\ NothingServed']_vars

C30_Witness ==
  /\ ExitedWith1
  /\ server = setupTools \o <<Connect>>
  /\ stderr = <<FatalLine(<<"transport failed to start">>)>>
  /\ NothingServed

====
